---- MODULE Spec2Model ----
(***************************************************************************)
(* Model of the fiscal-receipt import pipeline of erp-pessoal-v2:          *)
(*   backend/app/services/scraper_handler.py  (ScraperImporter)            *)
(*   backend/app/services/browser_fetcher.py  (BrowserHTMLFetcher)         *)
(*   backend/app/services/xml_handler.py      (XMLProcessor)               *)
(*   backend/app/main.py                      (import and CRUD endpoints)  *)
(*   backend/app/models.py                    (table constraints)          *)
(*                                                                         *)
(* Every handler is one atomic action.  The network, the browser and the   *)
(* file system are an environment whose answers are drawn from small sets. *)
(***************************************************************************)
EXTENDS Integers, Sequences, FiniteSets, TLC

VARIABLES
    notes,      \* table fiscal_notes, in id order (id = index)
    items,      \* table fiscal_items, in id order
    mappings,   \* table product_mapping
    master,     \* table products_master (the EANs registered)
    logFile,    \* content of processed_urls_backup.json (a JSON array of URLs)
    resp,       \* what the last handler call returned to its caller
    events,     \* acquisition events of the last import_from_url call, in order
    origin,     \* history: origin[i] is the source note i was imported from
    report,     \* what the last restore_from_backup call did, URL by URL
    importers,  \* the ScraperImporter of each request in progress: its position,
                \* its URL and its in-memory _processed_urls
    acked       \* history: the URLs whose _save_processed_url_to_backup wrote the file

vars == <<notes, items, mappings, master, logFile, resp, events, origin, report, importers, acked>>

(***************************************************************************)
(* Bounds                                                                  *)
(***************************************************************************)
MaxNotes == 2        \* rows of fiscal_notes explored
MaxTokens == 2       \* distinct values uuid4() can return
MaxItemRows == 3     \* rows of fiscal_items beyond which POST .../items is not explored
MaxWriters == 2      \* requests whose importers work on the log file at once

None == "None"
EmptyStr == ""

(***************************************************************************)
(* Strings: the text operations the parsers apply                          *)
(***************************************************************************)
UpperLetters == "ABCDEFGHIJKLMNOPQRSTUVWXYZ"
LowerLetters == "abcdefghijklmnopqrstuvwxyz"
DigitChars == "0123456789"

lower_char(c) ==
    IF \E i \in 1..Len(UpperLetters) : SubSeq(UpperLetters, i, i) = c
    THEN LET i == CHOOSE i \in 1..Len(UpperLetters) : SubSeq(UpperLetters, i, i) = c
         IN  SubSeq(LowerLetters, i, i)
    ELSE c

\* str.lower()
RECURSIVE str_lower(_)
str_lower(s) ==
    IF Len(s) = 0 THEN ""
    ELSE lower_char(SubSeq(s, 1, 1)) \o str_lower(SubSeq(s, 2, Len(s)))

\* str.replace(needle, "")
RECURSIVE str_remove(_, _)
str_remove(s, needle) ==
    IF Len(s) < Len(needle) THEN s
    ELSE IF SubSeq(s, 1, Len(needle)) = needle
    THEN str_remove(SubSeq(s, Len(needle) + 1, Len(s)), needle)
    ELSE SubSeq(s, 1, 1) \o str_remove(SubSeq(s, 2, Len(s)), needle)

\* str.isdigit()
isdigit(s) ==
    /\ Len(s) > 0
    /\ \A i \in 1..Len(s) : \E d \in 1..Len(DigitChars) :
          SubSeq(s, i, i) = SubSeq(DigitChars, d, d)

\* str.replace(c, by) for a one-character c
RECURSIVE str_replace_char(_, _, _)
str_replace_char(s, c, by) ==
    IF Len(s) = 0 THEN ""
    ELSE (IF SubSeq(s, 1, 1) = c THEN by ELSE SubSeq(s, 1, 1))
            \o str_replace_char(SubSeq(s, 2, Len(s)), c, by)

\* str.split(): the runs of characters between blanks; cur is the run being read
RECURSIVE split_tokens(_, _)
split_tokens(s, cur) ==
    IF Len(s) = 0 THEN (IF cur = "" THEN <<>> ELSE <<cur>>)
    ELSE IF SubSeq(s, 1, 1) = " "
    THEN (IF cur = "" THEN <<>> ELSE <<cur>>) \o split_tokens(SubSeq(s, 2, Len(s)), "")
    ELSE split_tokens(SubSeq(s, 2, Len(s)), cur \o SubSeq(s, 1, 1))

str_split(s) == split_tokens(s, "")

\* int() of a string of digits; the empty string counts 0
RECURSIVE digits_value(_)
digits_value(s) ==
    IF Len(s) = 0 THEN 0
    ELSE digits_value(SubSeq(s, 1, Len(s) - 1)) * 10
            + ((CHOOSE d \in 1..10 : SubSeq(DigitChars, d, d) = SubSeq(s, Len(s), Len(s))) - 1)

NotNumber == -1   \* float(token) raised ValueError

\* float(s) for the decimal notations digits, digits.digits, .digits and
\* digits., in hundredths (amounts have at most two decimals); NotNumber for
\* any other string of the pages explored
float_cents(s) ==
    LET dots == {i \in 1..Len(s) : SubSeq(s, i, i) = "."}
    IN  IF \/ Cardinality(dots) > 1
           \/ ~isdigit(str_remove(s, "."))
        THEN NotNumber
        ELSE IF dots = {} THEN digits_value(s) * 100
        ELSE LET i == CHOOSE i \in dots : TRUE
                 frac == SubSeq(s, i + 1, Len(s))
             IN  digits_value(SubSeq(s, 1, i - 1)) * 100
                    + (IF Len(frac) = 0 THEN 0
                       ELSE IF Len(frac) = 1 THEN digits_value(frac) * 10
                       ELSE digits_value(SubSeq(frac, 1, 2)))

\* str.startswith(prefix)
starts_with(s, prefix) == Len(s) >= Len(prefix) /\ SubSeq(s, 1, Len(prefix)) = prefix

\* s[n:]
drop(s, n) == IF n >= Len(s) THEN "" ELSE SubSeq(s, n + 1, Len(s))

\* str.lstrip() and str.strip() for blanks
RECURSIVE lstrip(_)
lstrip(s) == IF starts_with(s, " ") THEN lstrip(drop(s, 1)) ELSE s

RECURSIVE rstrip(_)
rstrip(s) ==
    IF Len(s) > 0 /\ SubSeq(s, Len(s), Len(s)) = " " THEN rstrip(SubSeq(s, 1, Len(s) - 1))
    ELSE s

str_strip(s) == lstrip(rstrip(s))

\* any(c.isalpha() for c in s), for the letters of the pages explored
has_alpha(s) ==
    \E i \in 1..Len(s) : \E k \in 1..Len(UpperLetters) :
        \/ SubSeq(s, i, i) = SubSeq(UpperLetters, k, k)
        \/ SubSeq(s, i, i) = SubSeq(LowerLetters, k, k)

\* s.split(":", 1)[1] for a string that holds a colon
after_colon(s) ==
    LET i == CHOOSE i \in 1..Len(s) :
                 /\ SubSeq(s, i, i) = ":"
                 /\ \A j \in 1..(i - 1) : SubSeq(s, j, j) # ":"
    IN  drop(s, i)

\* ' '.join([s[i:i+4] for i in range(0, len(s), 4)])
RECURSIVE group4(_)
group4(s) ==
    IF Len(s) <= 4 THEN s
    ELSE SubSeq(s, 1, 4) \o " " \o group4(SubSeq(s, 5, Len(s)))

\* uuid4().hex: 32 hexadecimal digits; the token is the random part
uuid4_hex(token) == "0f8fad5bd9cb469fa16570867728950" \o SubSeq(DigitChars, token + 1, token + 1)

\* the string that is stored in fiscal_notes.access_key
key_text(key) ==
    CASE key.kind = "grouped" -> group4(key.digits)
      [] key.kind = "raw" -> key.digits
      [] key.kind = "SCRAPING" -> "SCRAPING-" \o uuid4_hex(key.token)
      [] key.kind = "SCRAPING-RJ" -> "SCRAPING-RJ-" \o uuid4_hex(key.token)
      [] key.kind = "XML" -> "XML-" \o uuid4_hex(key.token)
      [] OTHER -> EmptyStr

(***************************************************************************)
(* HTML pages.  A page is what the block detectors and the adapters look   *)
(* at: the phrases its text contains and whether it carries a receipt.     *)
(***************************************************************************)
PhraseNegado == "acesso negado ao portal"
PhraseBloqueado == "acesso bloqueado"
PhraseRJ == "secretaria de estado de fazenda do rio de janeiro"

Page(ph, body) == [phrases |-> ph, body |-> body]

PageEmpty == Page({}, "empty")             \* the empty string
PageDocOnly == Page({}, "receipt")         \* a receipt page
PageDocRJ == Page({PhraseRJ}, "receipt")   \* a receipt page under the RJ banner
PageJunk == Page({}, "junk")               \* no receipt, no block phrase
PageRJGeneric == Page({PhraseRJ}, "junk")  \* the generic SEFAZ-RJ landing page
PageDenied == Page({PhraseNegado}, "junk")
PageBlockedRJ == Page({PhraseBloqueado, PhraseRJ}, "junk")

BrowserError == Page({}, "goto_raised")   \* page.goto raised (timeout, navigation error)

looks_like_sefaz_block_page(html) ==
    PhraseNegado \in html.phrases \/ PhraseBloqueado \in html.phrases

looks_like_rj_block_page(html) == PhraseRJ \in html.phrases

(***************************************************************************)
(* URLs and the receipts behind them                                       *)
(***************************************************************************)
RjDomain == "fazenda.rj.gov.br"

\* a URL is its text in two parts; url_text is str(payload.url)
Url(host, query) == [host |-> host, query |-> query]

url_text(url) == "https://" \o url.host \o "/consulta?" \o url.query

\* Python's "needle in text" on strings
Contains(text, needle) ==
    \E i \in 1..(Len(text) - Len(needle) + 1) :
        SubSeq(text, i, i + Len(needle) - 1) = needle

UrlSP == Url("nfce.fazenda.sp.gov.br", "p=1")
UrlSP2 == Url("nfce.fazenda.sp.gov.br", "p=1&v=2")
UrlRJ == Url("www4.fazenda.rj.gov.br", "p=3")

Urls == {UrlSP, UrlSP2, UrlRJ}

ParsedItem(name, quantity, unit_price, total_price, ean) ==
    [name |-> name, quantity |-> quantity, unit_price |-> unit_price,
     total_price |-> total_price, ean |-> ean]

\* The receipt a URL's page shows: the 44 digits printed on it (None when the
\* page prints no key), the seller, the total, the item rows.
Receipt(digits, seller, total, rows) ==
    [digits |-> digits, seller_name |-> seller, total_amount |-> total, items |-> rows]

\* a receipt whose only row has no quantity span: the adapter reads quantity 0
UrlZeroQty == Url("nfce.fazenda.sp.gov.br", "p=4")

PageReceipt(url) ==
    IF url = UrlRJ
    THEN Receipt(None, "s2", 5, <<ParsedItem("n2", 1, 5, 5, None)>>)
    ELSE IF url = UrlZeroQty
    THEN Receipt("k4", "s1", 3, <<ParsedItem("n3", 0, 3, 3, None)>>)
    ELSE Receipt("k1", "s1", 4, <<ParsedItem("n1", 2, 2, 4, None)>>)

(***************************************************************************)
(* Access keys.  A key is the text stored in fiscal_notes.access_key.      *)
(***************************************************************************)
AccessKey(kind, digits, token) == [kind |-> kind, digits |-> digits, token |-> token]

\* ' '.join(clean_key[i:i+4] ...): the 44 digits in 4-digit blocks
format_key(digits) == AccessKey("grouped", digits, 0)

\* mutation: the HTML path synthesizes its key with the prefix of the XML path
scraping_fallback_key_xml_prefix(token) == AccessKey("XML", None, token)

\* f"SCRAPING-{uuid4().hex}"
scraping_fallback_key(token) == AccessKey("SCRAPING", None, token)

Tokens == 1..MaxTokens

ParsedNote(seller, total, key, its) ==
    [seller_name |-> seller, total_amount |-> total, access_key |-> key, items |-> its]

NoDoc == ParsedNote(None, 0, AccessKey(None, None, 0), <<>>)

(***************************************************************************)
(* Layout adapters                                                         *)
(***************************************************************************)
\* mutation: only the host part of the URL is searched
select_adapter_key_host_only(url) ==
    IF Contains(url.host, RjDomain) THEN "rj_nfe_moderno" ELSE "default"

select_adapter_key(url) ==
    IF Contains(url_text(url), RjDomain) THEN "rj_nfe_moderno" ELSE "default"

extract_access_key(receipt, token) ==
    IF receipt.digits # None THEN format_key(receipt.digits)
    ELSE scraping_fallback_key(token)

\* adapter.parse(html): TRUE when it raises ValueError
adapter_parse_fails(adapter, html) ==
    \/ adapter = "default" /\ looks_like_sefaz_block_page(html)
    \/ html.body # "receipt"

\* f"SCRAPING-RJ-{uuid4().hex}"
rj_fallback_key(token) == AccessKey("SCRAPING-RJ", None, token)

rj_extract_access_key(receipt, token) ==
    IF receipt.digits # None THEN format_key(receipt.digits)
    ELSE rj_fallback_key(token)

adapter_parse(adapter, url, html, token) ==
    LET r == PageReceipt(url)
    IN  ParsedNote(r.seller_name, r.total_amount,
                   IF adapter = "rj_nfe_moderno" THEN rj_extract_access_key(r, token)
                   ELSE extract_access_key(r, token),
                   r.items)

(***************************************************************************)
(* Environment of one import_from_url call                                 *)
(***************************************************************************)
TransportError == 0   \* requests.get raised: there is no response and no status

GetResult(status, html) == [status |-> status, html |-> html]

Env(gets, b1s, b2s, writes, tokens) ==
    [gets |-> gets, b1s |-> b1s, b2s |-> b2s, writes |-> writes, tokens |-> tokens]

GetPages == {PageEmpty, PageDocOnly, PageJunk, PageDenied}

FullEnv ==
    Env({GetResult(TransportError, PageEmpty), GetResult(404, PageEmpty)}
            \cup {GetResult(s, h) : s \in {200, 304}, h \in GetPages},
        {PageEmpty, PageDocOnly, PageDocRJ, PageJunk, PageRJGeneric, PageDenied,
         PageBlockedRJ, BrowserError},
        {PageEmpty, PageDocOnly, PageJunk, PageRJGeneric, PageDenied, BrowserError},
        {TRUE, FALSE},
        Tokens)

(***************************************************************************)
(* Acquisition events, in the order the code performs them                 *)
(***************************************************************************)
Ev(kind, status, page) == [kind |-> kind, status |-> status, page |-> page]

ParseOk == 1       \* adapter.parse returned a ParsedNote
ParseFailed == 2   \* adapter.parse raised ValueError

EvGet(g) == Ev("GET", g.status, g.html)             \* requests.get + raise_for_status
EvLaunch(headless) == Ev(IF headless THEN "LAUNCH_HEADLESS" ELSE "LAUNCH_VISIBLE", 0, PageEmpty)
EvCapture(html) == Ev("CAPTURE", 0, html)           \* page.content()
EvClose == Ev("CLOSE", 0, PageEmpty)                \* context.close(); browser.close()
\* adapter.parse(html), with the adapter class that was instantiated
EvParse(adapter, tag, ok, html) ==
    [kind |-> tag, status |-> IF ok THEN ParseOk ELSE ParseFailed, page |-> html,
     adapter |-> adapter]
EvSave == Ev("SAVE_LOG", 0, PageEmpty)              \* _save_processed_url_to_backup

(***************************************************************************)
(* BrowserHTMLFetcher.fetch                                                *)
(***************************************************************************)
\* _fetch_once: launches a browser; page.goto may raise, and then neither
\* context.close() nor browser.close() is reached.
fetch_once(headless, answer) ==
    IF answer = BrowserError
    THEN [events |-> <<EvLaunch(headless)>>, raised |-> TRUE, html |-> PageEmpty]
    ELSE [events |-> <<EvLaunch(headless), EvCapture(answer), EvClose>>,
          raised |-> FALSE, html |-> answer]

\* mutation: a blocked page is retried whatever the configured mode
fetch_retries_any_mode(headless, b1s, b2s) ==
    UNION { LET first == fetch_once(headless, b1)
            IN  IF first.raised THEN {first}
                ELSE IF looks_like_rj_block_page(first.html)
                THEN { LET second == fetch_once(FALSE, b2)
                       IN  [second EXCEPT !.events = first.events \o second.events]
                       : b2 \in b2s }
                ELSE {first}
          : b1 \in b1s }

\* the set of results fetch() can have, over the answers the environment gives
fetch(headless, b1s, b2s) ==
    UNION { LET first == fetch_once(headless, b1)
            IN  IF first.raised THEN {first}
                ELSE IF looks_like_rj_block_page(first.html) /\ headless
                THEN { LET second == fetch_once(FALSE, b2)
                       IN  [second EXCEPT !.events = first.events \o second.events]
                       : b2 \in b2s }
                ELSE {first}
          : b1 \in b1s }

(***************************************************************************)
(* ScraperImporter                                                         *)
(***************************************************************************)
\* content of the log file that is not a complete JSON array: the file as
\* open(path, 'w') truncated it, or with a part of the dump only
Torn == Url(None, "truncated")

\* mutation: what is in the file is taken as it is
load_processed_urls_unchecked(file) == file

\* _load_processed_urls_from_backup: json.load raises on a file that is not
\* complete JSON and the except branch starts from the empty set; a missing
\* file gives the empty set too
load_processed_urls_from_backup(file) == IF Torn \in file THEN {} ELSE file

\* _save_processed_url_to_backup: the in-memory set always gets the URL, the
\* file is rewritten from that set unless open() raises.
save_processed_url_to_backup(processed, file, url, writeOk) ==
    [processed |-> processed \cup {url},
     file |-> IF writeOk THEN processed \cup {url} ELSE file]

Result(evs, outcome, doc, file) ==
    [events |-> evs, outcome |-> outcome, doc |-> doc, file |-> file]

\* mutation: a URL found in the backup file is not parsed again
parse_and_save_skips_logged(adapter, url, html, file, evs, tag, env) ==
    IF url \in load_processed_urls_from_backup(file) \/ adapter_parse_fails(adapter, html)
    THEN {Result(evs \o <<EvParse(adapter, tag, FALSE, html)>>, "ExtractionError", NoDoc, file)}
    ELSE { LET saved == save_processed_url_to_backup(
                            load_processed_urls_from_backup(file), file, url, w)
           IN  Result(evs \o <<EvParse(adapter, tag, TRUE, html), EvSave>>, "ok",
                      adapter_parse(adapter, url, html, t), saved.file)
           : w \in env.writes,
             t \in (IF PageReceipt(url).digits = None THEN env.tokens ELSE {1}) }

\* "result = adapter.parse(html); self._save_processed_url_to_backup(url);
\* return result", or the ValueError of adapter.parse
parse_and_save(adapter, url, html, file, evs, tag, env) ==
    IF adapter_parse_fails(adapter, html)
    THEN {Result(evs \o <<EvParse(adapter, tag, FALSE, html)>>, "ExtractionError", NoDoc, file)}
    ELSE { LET saved == save_processed_url_to_backup(
                            load_processed_urls_from_backup(file), file, url, w)
           IN  Result(evs \o <<EvParse(adapter, tag, TRUE, html), EvSave>>, "ok",
                      adapter_parse(adapter, url, html, t), saved.file)
           : w \in env.writes,
             t \in (IF PageReceipt(url).digits = None THEN env.tokens ELSE {1}) }

\* the browser tier of import_from_url (from "fetcher = BrowserHTMLFetcher()")
browser_tier(adapter, url, file, evs, env) ==
    UNION { IF f.raised
            THEN {Result(evs \o f.events, "BrowserError", NoDoc, file)}
            ELSE IF looks_like_sefaz_block_page(f.html)
            THEN {Result(evs \o f.events, "BlockedAccessError", NoDoc, file)}
            ELSE parse_and_save(adapter, url, f.html, file, evs \o f.events,
                                "PARSE_BROWSER", env)
          : f \in fetch(TRUE, env.b1s, env.b2s) }

\* mutation: only server errors raise
raise_for_status_5xx_only(status) == status >= 500 /\ status < 600

\* response.raise_for_status(): raises for the 4xx and 5xx statuses
raise_for_status(status) == status >= 400 /\ status < 600

\* mutation: the result of the lightweight parse is dropped and the browser
\* tier runs in every case
requests_tier_always_browser(adapter, url, g, file, env) ==
    IF g.html # PageEmpty /\ ~looks_like_sefaz_block_page(g.html)
    THEN browser_tier(adapter, url, file,
                      <<EvGet(g), EvParse(adapter, "PARSE_GET", ~adapter_parse_fails(adapter, g.html),
                                          g.html)>>, env)
    ELSE browser_tier(adapter, url, file, <<EvGet(g)>>, env)

\* mutation: the ValueError of the lightweight parse is not caught
requests_tier_surfaces_failure(adapter, url, g, file, env) ==
    IF g.html # PageEmpty /\ ~looks_like_sefaz_block_page(g.html)
    THEN parse_and_save(adapter, url, g.html, file, <<EvGet(g)>>, "PARSE_GET", env)
    ELSE browser_tier(adapter, url, file, <<EvGet(g)>>, env)

\* the lightweight tier: what follows a GET that did not raise
requests_tier(adapter, url, g, file, env) ==
    IF g.html # PageEmpty /\ ~looks_like_sefaz_block_page(g.html)
    THEN IF ~adapter_parse_fails(adapter, g.html)
         THEN parse_and_save(adapter, url, g.html, file, <<EvGet(g)>>, "PARSE_GET", env)
         ELSE browser_tier(adapter, url, file,
                           <<EvGet(g), EvParse(adapter, "PARSE_GET", FALSE, g.html)>>, env)
    ELSE browser_tier(adapter, url, file, <<EvGet(g)>>, env)

\* mutation: force_browser is ignored, the GET is always issued
import_from_url_ignores_force(url, force_browser, file, env) ==
    LET adapter == select_adapter_key(url)
    IN  UNION { IF g.status = TransportError \/ raise_for_status(g.status)
                THEN {Result(<<EvGet(g)>>, "AcquisitionError", NoDoc, file)}
                ELSE requests_tier(adapter, url, g, file, env)
                : g \in env.gets }

\* the set of results import_from_url(url, force_browser) can have
import_from_url(url, force_browser, file, env) ==
    LET adapter == select_adapter_key(url)
    IN  IF force_browser
        THEN browser_tier(adapter, url, file, <<>>, env)
        ELSE UNION {
                IF g.status = TransportError \/ raise_for_status(g.status)
                THEN {Result(<<EvGet(g)>>, "AcquisitionError", NoDoc, file)}
                ELSE requests_tier(adapter, url, g, file, env)
                : g \in env.gets }

(***************************************************************************)
(* XML invoices and XMLProcessor.parse                                     *)
(***************************************************************************)
Missing == -1   \* a numeric tag that is absent from the XML

Prod(xProd, qCom, uCom, vUnCom, vProd, cEAN) ==
    [xProd |-> xProd, qCom |-> qCom, uCom |-> uCom, vUnCom |-> vUnCom,
     vProd |-> vProd, cEAN |-> cEAN]

Xml(name, dhEmi, xNome, vNF, Id, dets) ==
    [name |-> name, dhEmi |-> dhEmi, xNome |-> xNome, vNF |-> vNF, Id |-> Id, dets |-> dets]

XmlA == Xml("a.xml", "2026-02-11", "s1", 4, "k1", <<Prod("n1", 2, "UN", 2, 4, "e2")>>)
XmlB == Xml("b.xml", "2026-02-12", "s2", 8, "k2",
            <<Prod("n1", 1, "UN", 3, 3, None), Prod("n2", 1, "KG", 5, Missing, "e1")>>)
XmlNoId == Xml("noid.xml", "2026-02-13", "s1", 3, None, <<Prod("n1", 1, "UN", 3, 3, None)>>)
XmlNoQty == Xml("noqty.xml", "2026-02-14", "s1", 6, "k3",
                <<Prod("n1", 1, "UN", 3, 3, None), Prod("n2", Missing, "UN", 3, 3, None)>>)
XmlNoDate == Xml("nodate.xml", None, "s1", 3, "k3", <<Prod("n1", 1, "UN", 3, 3, None)>>)

XmlFiles == {XmlA, XmlB, XmlNoId, XmlNoQty, XmlNoDate}

NoXml == Xml(None, None, None, 0, None, <<>>)

\* access_key_attr.replace("NFe", "").strip(): the digits as they stand in Id
strip_nfe_prefix(Id) == AccessKey("raw", str_remove(Id, "NFe"), 0)

\* f"XML-{uuid4().hex}"
xml_fallback_key(token) == AccessKey("XML", None, token)

OrElse(v, missing, default) == IF v = missing THEN default ELSE v

xml_item(p) ==
    LET v_un_com == OrElse(p.vUnCom, Missing, 0)
    IN  ParsedItem(OrElse(p.xProd, None, EmptyStr),
                   OrElse(p.qCom, Missing, 0),
                   v_un_com,
                   OrElse(p.vProd, Missing, v_un_com),
                   p.cEAN)

\* XMLProcessor.parse: TRUE when it raises ValueError
xml_parse_fails(xml) ==
    \/ xml.dhEmi = None
    \/ xml.xNome = None
    \/ xml.vNF = Missing
    \/ xml.dets = <<>>

xml_parse(xml, token) ==
    ParsedNote(xml.xNome, xml.vNF,
               IF xml.Id # None /\ strip_nfe_prefix(xml.Id).digits # EmptyStr
               THEN strip_nfe_prefix(xml.Id)
               ELSE xml_fallback_key(token),
               [j \in 1..Len(xml.dets) |-> xml_item(xml.dets[j])])

(***************************************************************************)
(* DefaultSefazAdapter.parse, field by field                               *)
(***************************************************************************)
\* where the page prints the access key, and the characters it prints
HtmlKey(place, printed) == [place |-> place, printed |-> printed]

\* a row of the item table: the name cell, a second txtTit span of the same
\* cell if there is one, and the numbers
Row(name, alt, quantity, unit_price, total_price) ==
    [name |-> name, alt |-> alt, quantity |-> quantity, unit_price |-> unit_price,
     total_price |-> total_price]

\* a page: its running text, the kind of item table, the rows, the key
Html(text, table, rows, key) == [text |-> text, table |-> table, rows |-> rows, key |-> key]

NoHtml == Html(EmptyStr, "none", <<>>, HtmlKey("none", EmptyStr))

\* mutation: the phrases are looked for in the text as it is written
html_blocked_case_sensitive(text) ==
    Contains(text, PhraseNegado) \/ Contains(text, PhraseBloqueado)

\* parse: the test on normalized_text = soup.get_text(" ", strip=True).lower()
html_blocked(text) ==
    Contains(str_lower(text), PhraseNegado) \/ Contains(str_lower(text), PhraseBloqueado)

CityToken == "niteroi"

\* mutation: the name is compared as it is written
is_city_token_exact(name) == name = CityToken

\* name.lower() == "niteroi"
is_city_token(name) == str_lower(name) = CityToken

\* the name of a tabResult row: the txtTit span, or another txtTit span of
\* the cell when the first one is empty or the city token
tab_result_name(row) ==
    IF (is_city_token(row.name) \/ row.name = EmptyStr)
       /\ row.alt # None /\ ~is_city_token(row.alt)
    THEN row.alt
    ELSE row.name

html_extract_items(table, rows) ==
    IF table = "tabResult"
    THEN LET kept == SelectSeq(rows, LAMBDA r : /\ tab_result_name(r) # EmptyStr
                                               /\ ~is_city_token(tab_result_name(r)))
         IN  [j \in 1..Len(kept) |->
                 ParsedItem(tab_result_name(kept[j]), kept[j].quantity, kept[j].unit_price,
                            kept[j].total_price, None)]
    ELSE IF table = "generic"
    THEN LET kept == SelectSeq(rows, LAMBDA r : ~is_city_token(r.name) /\ r.name # EmptyStr)
         IN  [j \in 1..Len(kept) |->
                 ParsedItem(kept[j].name, kept[j].quantity, kept[j].unit_price,
                            kept[j].total_price, None)]
    ELSE <<>>

\* re.sub(r'\s+', '', raw_key)
clean_key(printed) == str_remove(printed, " ")

\* len(clean_key) == 44 and clean_key.isdigit()
is_access_key(clean) == Len(clean) = 44 /\ isdigit(clean)

\* re.findall(r'([0-9\s]{40,50})', text): the successive matches in a run of
\* digits and spaces, the first one of them that cleans to a key (or "")
RECURSIVE regex_key(_)
regex_key(run) ==
    IF Len(run) < 40 THEN EmptyStr
    ELSE LET n == IF Len(run) < 50 THEN Len(run) ELSE 50
             match == clean_key(SubSeq(run, 1, n))
         IN  IF is_access_key(match) THEN match
             ELSE regex_key(SubSeq(run, n + 1, Len(run)))

\* _extract_access_key: span.chave, then the strong label, then the page text
html_extract_access_key(key, token) ==
    IF key.place \in {"span_chave", "strong_sibling", "strong_parent"}
       /\ is_access_key(clean_key(key.printed))
    THEN format_key(clean_key(key.printed))
    ELSE IF key.place # "none" /\ regex_key(key.printed) # EmptyStr
    THEN format_key(regex_key(key.printed))
    ELSE scraping_fallback_key(token)

ParseResult(outcome, doc, steps) == [outcome |-> outcome, doc |-> doc, steps |-> steps]

\* DefaultSefazAdapter.parse(html); steps are the extractors that ran, in order
default_parse(html, token) ==
    IF html_blocked(html.text)
    THEN ParseResult("ExtractionError", NoDoc, <<>>)
    ELSE LET its == html_extract_items(html.table, html.rows)
             key == html_extract_access_key(html.key, token)
             before == <<"_extract_seller_name", "_extract_total_amount", "_extract_date",
                         "_extract_items">>
         IN  IF its = <<>>
             THEN ParseResult("ExtractionError", NoDoc, before)
             ELSE ParseResult("ok", ParsedNote("s1", 4, key, its),
                              before \o <<"_extract_access_key">>
                                \o (IF key.kind = "SCRAPING" THEN <<"uuid4">> ELSE <<>>))

(***************************************************************************)
(* RJSefazNFCeAdapter._extract_items: the page text, line by line           *)
(***************************************************************************)
RjItem(name, quantity, unit, unit_price, total_price) ==
    [name |-> name, quantity |-> quantity, unit |-> unit, unit_price |-> unit_price,
     total_price |-> total_price, ean |-> None]

\* _to_float(value), in hundredths; NotNumber when float raises
to_float(value) == float_cents(str_replace_char(str_remove(value, "."), ",", "."))

\* re.match(r"Qtde\.?:", line, re.IGNORECASE)
rj_match_qtde(line) ==
    starts_with(str_lower(line), "qtde:") \/ starts_with(str_lower(line), "qtde.:")

\* re.match(r"UN:", current, re.IGNORECASE)
rj_match_un(line) == starts_with(str_lower(line), "un:")

\* what follows "Vl", an optional dot and blanks at the start of a line; None
\* when the line does not start so
rj_after_vl(line) ==
    LET l == str_lower(line)
    IN  IF ~starts_with(l, "vl") THEN None
        ELSE lstrip(IF starts_with(drop(l, 2), ".") THEN drop(l, 3) ELSE drop(l, 2))

\* re.match(r"Vl\.?\s*Unit\.?:", current, re.IGNORECASE)
rj_match_vl_unit(line) ==
    LET r == rj_after_vl(line)
    IN  /\ r # None
        /\ starts_with(r, "unit")
        /\ \/ starts_with(drop(r, 4), ":")
           \/ starts_with(drop(r, 4), ".:")

\* re.match(r"Vl\.?\s*Total", current, re.IGNORECASE)
rj_match_vl_total(line) ==
    LET r == rj_after_vl(line)
    IN  r # None /\ starts_with(r, "total")

\* the tests a line passes to be taken as the product name
rj_name_candidate(candidate) ==
    /\ Len(candidate) > 3
    /\ ~isdigit(candidate)
    /\ ~\E x \in {"Código", "Clear text", "(Código"} : Contains(candidate, x)
    /\ ~\E x \in {"qtde", "vl.", "un:", "cnpj", "documento auxiliar", ")"} :
            Contains(str_lower(candidate), x)
    /\ has_alpha(candidate)

RjLookback == 8   \* "range(max(0, i - 8), i)"

\* "for j in range(max(0, i - 8), i): ... name = candidate; break": the loop
\* goes up from the start of the window and stops at the first line it accepts
rj_name(lines, i) ==
    LET first == IF i - RjLookback > 1 THEN i - RjLookback ELSE 1
        accepted == {j \in first..(i - 1) : rj_name_candidate(lines[j])}
    IN  IF accepted = {} THEN ""
        ELSE lines[CHOOSE j \in accepted : \A k \in accepted : j <= k]

\* the loop over the lines after the marker: unit, unit price and total are
\* each on the line after their label; the total ends the loop
RECURSIVE rj_fields(_, _, _, _)
rj_fields(lines, j, last, acc) ==
    IF j > last THEN acc
    ELSE LET current == lines[j]
             has_next == j + 1 <= Len(lines)
         IN  IF rj_match_un(current)
             THEN rj_fields(lines, j + 1, last,
                            IF has_next THEN [acc EXCEPT !.unit = lines[j + 1]] ELSE acc)
             ELSE IF rj_match_vl_unit(current)
             THEN rj_fields(lines, j + 1, last,
                            IF has_next /\ to_float(lines[j + 1]) # NotNumber
                            THEN [acc EXCEPT !.unit_price = to_float(lines[j + 1])]
                            ELSE acc)
             ELSE IF rj_match_vl_total(current)
             THEN (IF has_next /\ to_float(lines[j + 1]) # NotNumber
                   THEN [acc EXCEPT !.total_price = to_float(lines[j + 1])]
                   ELSE acc)
             ELSE rj_fields(lines, j + 1, last, acc)

\* the item of the marker line i, or <<>> when it has no name or no quantity
rj_item_at(lines, i) ==
    LET line == lines[i]
        inline == Contains(line, ":") /\ Len(line) > 6
        qty_text == IF inline THEN str_strip(after_colon(line))
                    ELSE IF i + 1 <= Len(lines) THEN lines[i + 1] ELSE "0"
        next_line_offset == IF inline THEN 1 ELSE 2
        name == rj_name(lines, i)
        last == IF i + 14 < Len(lines) THEN i + 14 ELSE Len(lines)
        f == rj_fields(lines, i + next_line_offset, last,
                       [unit |-> "", unit_price |-> 0, total_price |-> 0])
        qty == IF to_float(qty_text) = NotNumber THEN 0 ELSE to_float(qty_text)
    IN  IF name # "" /\ qty > 0
        THEN <<RjItem(name, qty, IF f.unit = "" THEN "UN" ELSE f.unit, f.unit_price,
                      f.total_price)>>
        ELSE <<>>

\* "while i < len(lines)": the items of all marker lines, in order
RECURSIVE rj_items_from(_, _)
rj_items_from(lines, i) ==
    IF i > Len(lines) THEN <<>>
    ELSE (IF rj_match_qtde(lines[i]) THEN rj_item_at(lines, i) ELSE <<>>)
            \o rj_items_from(lines, i + 1)

\* RJSefazNFCeAdapter._extract_items
rj_extract_items(lines) ==
    LET its == rj_items_from(lines, 1)
    IN  IF its = <<>> THEN [outcome |-> "ExtractionError", items |-> <<>>]
        ELSE [outcome |-> "ok", items |-> its]

(***************************************************************************)
(* DefaultSefazAdapter._extract_total_amount                               *)
(***************************************************************************)
\* the text of a page, soup.get_text(" ", strip=True), in four parts
TotalPage(prefix, label, amount, suffix) ==
    [prefix |-> prefix, label |-> label, amount |-> amount, suffix |-> suffix]

page_text(pg) == pg.prefix \o " " \o pg.label \o " " \o pg.amount \o " " \o pg.suffix

\* "for token in text.split()": the first token whose float is positive
RECURSIVE first_positive_token(_)
first_positive_token(tokens) ==
    IF tokens = <<>> THEN 0
    ELSE LET token_norm == str_replace_char(str_remove(Head(tokens), "."), ",", ".")
             value == float_cents(token_norm)
         IN  IF value > 0 THEN value ELSE first_positive_token(Tail(tokens))

extract_total_amount(pg) == first_positive_token(str_split(page_text(pg)))

(***************************************************************************)
(* Persistence: _persist_parsed_note                                       *)
(***************************************************************************)
FiscalNote(id, parsed, source_type) ==
    [id |-> id, total_amount |-> parsed.total_amount, seller_name |-> parsed.seller_name,
     access_key |-> parsed.access_key, source_type |-> source_type]

\* mutation: the unit price is stored in the total_price column
FiscalItem_total_from_unit(note_id, product_name, quantity, unit_price, total_price, product_ean) ==
    [note_id |-> note_id, product_name |-> product_name, quantity |-> quantity,
     unit_price |-> unit_price, total_price |-> unit_price, product_ean |-> product_ean]

FiscalItem(note_id, product_name, quantity, unit_price, total_price, product_ean) ==
    [note_id |-> note_id, product_name |-> product_name, quantity |-> quantity,
     unit_price |-> unit_price, total_price |-> total_price, product_ean |-> product_ean]

\* FiscalItem.__table_args__: the CHECK constraints of fiscal_items
check_constraints_ok(it) ==
    it.quantity > 0 /\ it.unit_price >= 0 /\ it.total_price >= 0

\* FiscalNote.access_key is unique=True: the flush raises IntegrityError
access_key_taken(key, noteRows) == \E i \in 1..Len(noteRows) : noteRows[i].access_key = key

\* mutation: the seller is left out of the WHERE clause
matching_mappings_any_seller(name, seller, maps) ==
    {m \in maps : m.raw_description = name}

\* select(ProductMapping).where(raw_description == name, seller_name == seller)
matching_mappings(name, seller, maps) ==
    {m \in maps : m.raw_description = name /\ m.seller_name = seller}

\* mutation: the mapping is consulted before the document-declared code
resolve_product_ean_mapping_first(item_ean, matches) ==
    IF matches # {}
    THEN (CHOOSE m \in matches : TRUE).product_ean
    ELSE item_ean

\* the product_ean an imported item is stored with (main.py 261-263)
resolve_product_ean(item_ean, matches) ==
    IF item_ean = None /\ matches # {}
    THEN (CHOOSE m \in matches : TRUE).product_ean
    ELSE item_ean

NoKey == AccessKey(None, None, 0)

\* detail: the access key the HTTPException detail names (NoKey when none)
PersistResult(status, error, detail, noteRows, itemRows, note_id) ==
    [status |-> status, error |-> error, detail |-> detail, notes |-> noteRows,
     items |-> itemRows, note_id |-> note_id]

\* mutation: the duplicate is reported but the session is not rolled back, and
\* the items of the rejected document are stored under a new note id
persist_parsed_note_no_rollback(parsed, source_type, noteRows, itemRows, maps) ==
    LET note_id == Len(noteRows) + 1
        new == [j \in 1..Len(parsed.items) |->
                   FiscalItem(note_id, parsed.items[j].name, parsed.items[j].quantity,
                              parsed.items[j].unit_price, parsed.items[j].total_price,
                              parsed.items[j].ean)]
    IN  IF access_key_taken(parsed.access_key, noteRows)
        THEN PersistResult(409, "ConflictError", parsed.access_key, noteRows,
                           itemRows \o new, 0)
        ELSE PersistResult(200, "ok", NoKey,
                           Append(noteRows, FiscalNote(note_id, parsed, source_type)),
                           itemRows \o new, note_id)

persist_parsed_note(parsed, source_type, noteRows, itemRows, maps) ==
    IF access_key_taken(parsed.access_key, noteRows)
    THEN \* db.rollback(); HTTPException(409)
         PersistResult(409, "ConflictError", parsed.access_key, noteRows, itemRows, 0)
    ELSE LET note_id == Len(noteRows) + 1
             match(j) == matching_mappings(parsed.items[j].name, parsed.seller_name, maps)
             new == [j \in 1..Len(parsed.items) |->
                        FiscalItem(note_id, parsed.items[j].name, parsed.items[j].quantity,
                                   parsed.items[j].unit_price, parsed.items[j].total_price,
                                   resolve_product_ean(parsed.items[j].ean, match(j)))]
         IN  IF \E j \in 1..Len(parsed.items) : Cardinality(match(j)) > 1
             THEN \* scalar_one_or_none() raises MultipleResultsFound
                  PersistResult(500, "MultipleResultsFound", NoKey, noteRows, itemRows, 0)
             ELSE IF \E j \in 1..Len(new) : ~check_constraints_ok(new[j])
             THEN \* db.commit() raises IntegrityError: note and items are rolled back
                  PersistResult(500, "IntegrityError", NoKey, noteRows, itemRows, 0)
             ELSE PersistResult(200, "ok", NoKey,
                                Append(noteRows, FiscalNote(note_id, parsed, source_type)),
                                itemRows \o new, note_id)

(***************************************************************************)
(* Responses                                                               *)
(***************************************************************************)
NoUrl == Url(None, None)

RespD(op, status, outcome, url, force, xml, parsed, detail) ==
    [op |-> op, status |-> status, outcome |-> outcome, url |-> url,
     force |-> force, xml |-> xml, parsed |-> parsed, detail |-> detail]

Resp(op, status, outcome, url, force, xml, parsed) ==
    RespD(op, status, outcome, url, force, xml, parsed, NoKey)

Source(xml, url) == [xml |-> xml, url |-> url]

\* "items_count": len(parsed.items) in the body of a successful import
items_count(r) == Len(r.parsed.items)

\* the account of one restore: the notes stored before it began, and for each
\* URL of the list, in order, what was fetched and how it ended
Report(base, entries) == [base |-> base, entries |-> entries]

NoReport == Report(0, <<>>)

(***************************************************************************)
(* The importers of the requests in progress                               *)
(***************************************************************************)
Writers == 1..MaxWriters

\* one ScraperImporter and the position of its import_from_url call
Importer(pc, url, processed, outcome, doc, saved) ==
    [pc |-> pc, url |-> url, processed |-> processed, outcome |-> outcome, doc |-> doc,
     saved |-> saved]

Idle == Importer("idle", NoUrl, {}, "none", NoDoc, FALSE)

NoImporters == [p \in Writers |-> Idle]

(***************************************************************************)
(* Initial state: empty tables, no log file                                *)
(***************************************************************************)
Init ==
    /\ notes = <<>>
    /\ items = <<>>
    /\ origin = <<>>
    /\ mappings = {}
    /\ master = {}
    /\ logFile = {}
    /\ resp = Resp("startup", 0, "ok", NoUrl, FALSE, NoXml, NoDoc)
    /\ events = <<>>
    /\ report = NoReport
    /\ importers = NoImporters
    /\ acked = {}

(***************************************************************************)
(* A direct call of ScraperImporter().import_from_url(url, force_browser)  *)
(***************************************************************************)
CallImportFromUrl(url, force_browser) ==
    \E r \in import_from_url(url, force_browser, logFile, FullEnv) :
        /\ events' = r.events
        /\ logFile' = r.file
        /\ resp' = Resp("import_from_url", 0, r.outcome, url, force_browser, NoXml, r.doc)
        /\ UNCHANGED <<notes, items, origin, mappings, master, report, importers, acked>>

NextFetch == \E url \in Urls, force_browser \in BOOLEAN : CallImportFromUrl(url, force_browser)

SpecFetch == Init /\ [][NextFetch]_vars

(***************************************************************************)
(* A direct call of BrowserHTMLFetcher(BrowserFetchOptions(headless)).fetch *)
(***************************************************************************)
\* what fetch(url) gave: the HTML it returned, or the exception of page.goto
FetchResp(url, headless, outcome, html) ==
    [op |-> "fetch", status |-> 0, outcome |-> outcome, url |-> url, force |-> FALSE,
     xml |-> NoXml, parsed |-> NoDoc, headless |-> headless, html |-> html]

CallFetch(url, headless) ==
    \E f \in fetch(headless, FullEnv.b1s, FullEnv.b2s) :
        /\ events' = f.events
        /\ resp' = FetchResp(url, headless, IF f.raised THEN "BrowserError" ELSE "ok", f.html)
        /\ UNCHANGED <<notes, items, origin, mappings, master, logFile, report, importers, acked>>

NextAttempts ==
    \/ \E url \in Urls, force_browser \in BOOLEAN : CallImportFromUrl(url, force_browser)
    \/ \E url \in Urls, headless \in BOOLEAN : CallFetch(url, headless)

SpecAttempts == Init /\ [][NextAttempts]_vars

(***************************************************************************)
(* The log file under requests that overlap and under a crash              *)
(***************************************************************************)
LogUrls == {UrlSP, UrlSP2, UrlRJ}

LogPages == {PageDocOnly, PageJunk}

\* "importer = ScraperImporter()": __init__ reads the log file
ScraperImporter_init(p, url) ==
    /\ importers[p].pc \in {"idle", "done"}
    /\ importers' = [importers EXCEPT ![p] =
            Importer("loaded", url, load_processed_urls_from_backup(logFile), "pending",
                     NoDoc, FALSE)]
    /\ UNCHANGED <<notes, items, origin, mappings, master, logFile, resp, events, report, acked>>

\* import_from_url from the fetch to the open() of _save_processed_url_to_backup:
\* adapter.parse, self._processed_urls.add(url), open(path, 'w')
import_from_url_to_open(p, html, writeOk) ==
    LET me == importers[p]
        adapter == select_adapter_key(me.url)
    IN  /\ me.pc = "loaded"
        /\ UNCHANGED <<notes, items, origin, mappings, master, resp, events, report, acked>>
        /\ IF adapter_parse_fails(adapter, html)
           THEN /\ importers' = [importers EXCEPT ![p] =
                        Importer("done", me.url, me.processed, "ExtractionError", NoDoc, FALSE)]
                /\ UNCHANGED logFile
           ELSE LET doc == adapter_parse(adapter, me.url, html, 1)
                    processed == me.processed \cup {me.url}
                IN  IF writeOk
                    THEN \* the file is open and empty; the dump is still to come
                         /\ importers' = [importers EXCEPT ![p] =
                                 Importer("writing", me.url, processed, "pending", doc, FALSE)]
                         /\ logFile' = {Torn}
                    ELSE \* open() raised: "except Exception: pass", the result is returned
                         /\ importers' = [importers EXCEPT ![p] =
                                 Importer("done", me.url, processed, "ok", doc, FALSE)]
                         /\ UNCHANGED logFile

\* what the file holds after json.dump and the close of the with block: the
\* array of this importer, or, when another importer has the file open for
\* writing too, possibly a mix of the two dumps
dump_outcomes(p) ==
    {importers[p].processed}
        \cup (IF \E q \in Writers \ {p} : importers[q].pc = "writing" THEN {{Torn}} ELSE {})

\* json.dump(list(self._processed_urls), f), close, "return result"
save_processed_url_dump(p) ==
    LET me == importers[p]
    IN  /\ me.pc = "writing"
        /\ \E content \in dump_outcomes(p) :
              /\ logFile' = content
              /\ acked' = IF content = me.processed THEN acked \cup {me.url} ELSE acked
        /\ importers' = [importers EXCEPT ![p] =
                Importer("done", me.url, me.processed, "ok", me.doc, TRUE)]
        /\ UNCHANGED <<notes, items, origin, mappings, master, resp, events, report>>

\* the process dies: the importers are gone, the file stays as it is
Crash ==
    /\ \E p \in Writers : importers[p].pc # "idle"
    /\ importers' = NoImporters
    /\ UNCHANGED <<notes, items, origin, mappings, master, logFile, resp, events, report, acked>>

ImporterSteps(p, urls) ==
    \/ \E url \in urls : ScraperImporter_init(p, url)
    \/ \E html \in LogPages, writeOk \in BOOLEAN : import_from_url_to_open(p, html, writeOk)
    \/ save_processed_url_dump(p)

\* requests served one at a time by a process that may crash
NextCrash ==
    \/ ImporterSteps(1, LogUrls)
    \/ Crash

SpecCrash == Init /\ [][NextCrash]_vars

\* requests served at the same time, each by its own importer
NextWriters == \E p \in Writers : ImporterSteps(p, {UrlSP, UrlSP2})

SpecWriters == Init /\ [][NextWriters]_vars

(***************************************************************************)
(* POST /import/xml                                                        *)
(***************************************************************************)
import_xml(xml) ==
    \E token \in (IF xml.Id = None THEN Tokens ELSE {1}) :
        IF xml_parse_fails(xml)
        THEN \* the ValueError is not caught: 500
             /\ resp' = Resp("import_xml", 500, "ExtractionError", NoUrl, FALSE, xml, NoDoc)
             /\ events' = <<>>
             /\ UNCHANGED <<notes, items, origin, mappings, master, logFile, report, importers, acked>>
        ELSE LET parsed == xml_parse(xml, token)
                 p == persist_parsed_note(parsed, "XML", notes, items, mappings)
             IN  /\ Len(p.notes) <= MaxNotes
                 /\ notes' = p.notes
                 /\ items' = p.items
                 /\ origin' = IF p.status = 200 THEN Append(origin, Source(xml, NoUrl))
                              ELSE origin
                 /\ resp' = RespD("import_xml", p.status, p.error, NoUrl, FALSE, xml, parsed,
                                   p.detail)
                 /\ events' = <<>>
                 /\ UNCHANGED <<mappings, master, logFile, report, importers, acked>>

(***************************************************************************)
(* POST /import/url                                                        *)
(***************************************************************************)
\* the environment answers explored at the endpoint
EndpointEnv ==
    Env({GetResult(TransportError, PageEmpty), GetResult(404, PageEmpty),
         GetResult(200, PageDocOnly), GetResult(304, PageDocOnly),
         GetResult(200, PageDenied)},
        {PageDocOnly, PageDenied},
        {PageDocOnly},
        {TRUE, FALSE},
        Tokens)

import_url(url, use_browser, env) ==
    \E r \in import_from_url(url, use_browser, logFile, env) :
        /\ events' = r.events
        /\ logFile' = r.file
        /\ IF r.outcome # "ok"
           THEN \* ValueError -> 422; any other exception is not caught: 500
                /\ resp' = Resp("import_url",
                                IF r.outcome \in {"BlockedAccessError", "ExtractionError"}
                                THEN 422 ELSE 500,
                                r.outcome, url, use_browser, NoXml, NoDoc)
                /\ UNCHANGED <<notes, items, origin, mappings, master, report, importers, acked>>
           ELSE LET p == persist_parsed_note(r.doc, "SCRAPING", notes, items, mappings)
                IN  /\ Len(p.notes) <= MaxNotes
                    /\ notes' = p.notes
                    /\ items' = p.items
                    /\ origin' = IF p.status = 200 THEN Append(origin, Source(NoXml, url))
                                 ELSE origin
                    /\ resp' = RespD("import_url", p.status, p.error, url, use_browser,
                                     NoXml, r.doc, p.detail)
                    /\ UNCHANGED <<mappings, master, report, importers, acked>>

Next ==
    \/ \E xml \in XmlFiles : import_xml(xml)
    \/ \E url \in Urls, use_browser \in BOOLEAN : import_url(url, use_browser, EndpointEnv)

Spec == Init /\ [][Next]_vars

\* the URL endpoint alone
NextUrl == \E url \in Urls, use_browser \in BOOLEAN : import_url(url, use_browser, EndpointEnv)

SpecUrl == Init /\ [][NextUrl]_vars

(***************************************************************************)
(* Imports over URLs that carry the regional domain in different places    *)
(***************************************************************************)
SelectHosts ==
    {"nfce.fazenda.sp.gov.br", "www4.fazenda.rj.gov.br", "consultadfe.fazenda.rj.gov.br",
     "WWW4.FAZENDA.RJ.GOV.BR", "www.fazenda.rj.gov", "proxy.example.org"}

SelectQueries == {"p=1", "u=fazenda.rj.gov.br", "u=fazenda.rj.gov.br.example.org", "u=rj.gov.br"}

SelectUrls == {Url(h, q) : h \in SelectHosts, q \in SelectQueries}

\* the lightweight page is a receipt or not; the browser returns the receipt;
\* the backup file cannot be written
SelectEnv ==
    Env({GetResult(200, PageDocOnly), GetResult(200, PageJunk)},
        {PageDocOnly}, {PageDocOnly}, {FALSE}, {1})

NextSelect ==
    \E url \in SelectUrls, use_browser \in BOOLEAN : import_url(url, use_browser, SelectEnv)

SpecSelect == Init /\ [][NextSelect]_vars

(***************************************************************************)
(* POST /import/restore-from-backup                                        *)
(***************************************************************************)
RestoreUrls == {UrlSP, UrlSP2, UrlZeroQty}

RestoreEnv ==
    Env({GetResult(200, PageDocOnly), GetResult(404, PageEmpty)},
        {PageDocOnly}, {PageDocOnly}, {TRUE}, Tokens)

\* json.load(f): the URLs of the file in the order they were written, which is
\* the iteration order of a Python set
url_lists(file) ==
    {f \in [1..Cardinality(file) -> file] :
        \A i, j \in 1..Cardinality(file) : i # j => f[i] # f[j]}

\* one turn of the loop: fetched is what import_from_url raised ("ok" when it
\* returned), slept tells whether time.sleep(5) ran in the turn, result is how
\* the turn ended ("ok" when restored_count grew)
Entry(url, fetched, slept, doc, result) ==
    [url |-> url, fetched |-> fetched, slept |-> slept, doc |-> doc, result |-> result]

\* "for url in urls: try ... except Exception".  time.sleep(5) follows the
\* return of import_from_url and is skipped when it raises.  All turns share the session
\* db: pending is TRUE once db.commit() has failed in a flush, because nothing
\* calls db.rollback() and every later db.flush() raises PendingRollbackError.
RECURSIVE restore_loop(_, _, _, _, _, _)
restore_loop(urls, noteRows, itemRows, pending, file, entries) ==
    IF urls = <<>>
    THEN {[notes |-> noteRows, items |-> itemRows, file |-> file, entries |-> entries]}
    ELSE LET url == Head(urls)
         IN  UNION {
               IF r.outcome # "ok"
               THEN restore_loop(Tail(urls), noteRows, itemRows, pending, r.file,
                                 Append(entries, Entry(url, r.outcome, FALSE, NoDoc, r.outcome)))
               ELSE IF pending
               THEN restore_loop(Tail(urls), noteRows, itemRows, pending, r.file,
                                 Append(entries,
                                        Entry(url, "ok", TRUE, r.doc, "PendingRollbackError")))
               ELSE LET p == persist_parsed_note(r.doc, "SCRAPING", noteRows, itemRows,
                                                 mappings)
                    IN  restore_loop(Tail(urls), p.notes, p.items,
                                     p.error = "IntegrityError", r.file,
                                     Append(entries, Entry(url, "ok", TRUE, r.doc, p.error)))
               : r \in import_from_url(url, FALSE, file, RestoreEnv) }

restored_count(entries) == Len(SelectSeq(entries, LAMBDA e : e.result = "ok"))

errors(entries) == SelectSeq(entries, LAMBDA e : e.result # "ok")

restore_from_backup ==
    /\ events' = <<>>
    /\ UNCHANGED <<mappings, master, importers, acked>>
    /\ IF logFile = {}
       THEN \* no backup file: 404
            /\ resp' = Resp("restore_from_backup", 404, "NotFound", NoUrl, FALSE, NoXml, NoDoc)
            /\ report' = NoReport
            /\ UNCHANGED <<notes, items, origin, logFile>>
       ELSE \E urls \in url_lists(logFile) :
            \E f \in restore_loop(urls, notes, items, FALSE, logFile, <<>>) :
                LET restored == SelectSeq(f.entries, LAMBDA e : e.result = "ok")
                IN  /\ Len(f.notes) <= MaxNotes
                    /\ notes' = f.notes
                    /\ items' = f.items
                    /\ logFile' = f.file
                    /\ origin' = origin \o [j \in 1..Len(restored) |->
                                                Source(NoXml, restored[j].url)]
                    /\ report' = Report(Len(notes), f.entries)
                    /\ resp' = Resp("restore_from_backup", 200, "ok", NoUrl, FALSE, NoXml,
                                    NoDoc)

\* the application is started again: DATABASE_URL defaults to an in-memory
\* SQLite database, so create_all() makes empty tables; the backup file stays
lifespan ==
    /\ notes # <<>>
    /\ notes' = <<>>
    /\ items' = <<>>
    /\ origin' = <<>>
    /\ mappings' = {}
    /\ master' = {}
    /\ resp' = Resp("startup", 0, "ok", NoUrl, FALSE, NoXml, NoDoc)
    /\ events' = <<>>
    /\ report' = NoReport
    /\ UNCHANGED <<logFile, importers, acked>>

NextRestore ==
    \/ \E url \in RestoreUrls : import_url(url, FALSE, RestoreEnv)
    \/ restore_from_backup
    \/ lifespan

SpecRestore == Init /\ [][NextRestore]_vars

(***************************************************************************)
(* The parsers called on their own                                         *)
(***************************************************************************)
Key44 == "33260210697697000660651070003680661266494182"

ParseTexts ==
    {"Consulta de NFC-e", "Acesso negado ao portal da SEFAZ", "ACESSO NEGADO AO PORTAL",
     "seu acesso bloqueado", "Acesso Bloqueado", "acesso negado"}

RowLists ==
    {<<>>,
     <<Row("ARROZ", None, 2, 3, 6)>>,
     <<Row("NITEROI", None, 1, 3, 3)>>,
     <<Row("ARROZ", None, 2, 3, 6), Row("Niteroi", None, 1, 3, 3)>>,
     <<Row("niteroi", None, 1, 3, 3), Row("ARROZ", None, 2, 3, 6)>>,
     <<Row("NITEROI", "FEIJAO", 1, 3, 3)>>}

HtmlKeys ==
    {HtmlKey("none", EmptyStr),
     HtmlKey("span_chave", Key44), HtmlKey("span_chave", group4(Key44)),
     HtmlKey("strong_sibling", group4(Key44)), HtmlKey("strong_parent", Key44),
     HtmlKey("text", Key44), HtmlKey("text", group4(Key44)),
     HtmlKey("text", "0123456789")}

HtmlPages ==
    {Html(t, tb, rows, k) : t \in ParseTexts, tb \in {"tabResult", "generic", "none"},
                            rows \in RowLists, k \in HtmlKeys}

ItemLists ==
    {<<>>,
     <<Prod("n1", 2, "UN", 3, 6, "e1")>>,
     <<Prod("n1", 2, "UN", 3, Missing, None)>>,
     <<Prod(None, 2, "UN", 3, 6, "e1")>>,
     <<Prod("n1", Missing, "UN", 3, 6, "e1")>>,
     <<Prod("n1", 2, None, 3, 6, "e1")>>,
     <<Prod("n1", 2, "UN", Missing, 6, "e1")>>}

XmlDocs ==
    {Xml("nfe.xml", d, x, v, id, dets) :
        d \in {"2026-02-11", None}, x \in {"s1", None}, v \in {6, Missing},
        id \in {None, "NFe", "NFe" \o Key44}, dets \in ItemLists}

\* what a direct call of a parser gave: the input, the outcome, the document
ParseResp(op, html, xml, outcome, parsed) ==
    [op |-> op, status |-> 0, outcome |-> outcome, url |-> NoUrl, force |-> FALSE,
     xml |-> xml, parsed |-> parsed, detail |-> NoKey, html |-> html]

\* the input is chosen first; the parser is then called on it, any number of times
InitParse ==
    /\ notes = <<>>
    /\ items = <<>>
    /\ origin = <<>>
    /\ mappings = {}
    /\ master = {}
    /\ logFile = {}
    /\ events = <<>>
    /\ report = NoReport
    /\ importers = NoImporters
    /\ acked = {}
    /\ resp \in {ParseResp("input", html, NoXml, "pending", NoDoc) : html \in HtmlPages}
                \cup {ParseResp("input", NoHtml, xml, "pending", NoDoc) : xml \in XmlDocs}

\* DefaultSefazAdapter().parse(html)
CallDefaultParse ==
    /\ resp.op \in {"input", "default_parse"}
    /\ resp.html # NoHtml
    /\ \E token \in Tokens :
        LET r == default_parse(resp.html, token)
        IN  /\ resp' = ParseResp("default_parse", resp.html, NoXml, r.outcome, r.doc)
            /\ events' = [j \in 1..Len(r.steps) |-> Ev(r.steps[j], 0, PageEmpty)]
            /\ UNCHANGED <<notes, items, origin, mappings, master, logFile, report, importers, acked>>

\* XMLProcessor().parse(xml_content)
CallXmlParse ==
    /\ resp.op \in {"input", "xml_parse"}
    /\ resp.xml # NoXml
    /\ \E token \in Tokens :
        /\ resp' = IF xml_parse_fails(resp.xml)
                   THEN ParseResp("xml_parse", NoHtml, resp.xml, "ExtractionError", NoDoc)
                   ELSE ParseResp("xml_parse", NoHtml, resp.xml, "ok",
                                  xml_parse(resp.xml, token))
        /\ events' = <<>>
        /\ UNCHANGED <<notes, items, origin, mappings, master, logFile, report, importers, acked>>

NextParse == CallDefaultParse \/ CallXmlParse

SpecParse == InitParse /\ [][NextParse]_vars

(***************************************************************************)
(* The items read from the text of SEFAZ-RJ pages                          *)
(***************************************************************************)
RjNames == {"ARROZ TIPO 1", "FEIJAO PRETO"}

\* an item with its code line and all its fields, one per line
RjFullBlock(name, unit) ==
    <<name, "(Código: 123 )", "Qtde.: 2", "UN:", unit, "Vl. Unit.:", "3,00", "Vl. Total",
      "6,00">>

\* an item printed with its quantity and its total only
RjShortBlock(name) == <<name, "Qtde.:", "1", "Vl. Total", "5,00">>

RjBlocks ==
    {RjFullBlock(n, u) : n \in RjNames, u \in {"KG", "UNID"}}
        \cup {RjShortBlock(n) : n \in RjNames}

RjHeaders == {<<>>, <<"MERCADO BOM LTDA", "CNPJ: 12.345.678/0001-90">>}

RjTexts ==
    {h \o b : h \in RjHeaders, b \in RjBlocks}
        \cup {h \o b1 \o b2 : h \in RjHeaders, b1 \in RjBlocks, b2 \in RjBlocks}
        \cup RjHeaders

\* what a direct call of the extractor gave: the lines and the items
RjResp(op, lines, outcome, its) ==
    [op |-> op, status |-> 0, outcome |-> outcome, url |-> NoUrl, force |-> FALSE,
     xml |-> NoXml, parsed |-> ParsedNote(None, 0, NoKey, its), detail |-> NoKey,
     lines |-> lines]

InitRj ==
    /\ notes = <<>>
    /\ items = <<>>
    /\ origin = <<>>
    /\ mappings = {}
    /\ master = {}
    /\ logFile = {}
    /\ events = <<>>
    /\ report = NoReport
    /\ importers = NoImporters
    /\ acked = {}
    /\ resp \in {RjResp("input", lines, "pending", <<>>) : lines \in RjTexts}

\* RJSefazNFCeAdapter()._extract_items(soup)
CallRjExtractItems ==
    /\ resp.op \in {"input", "rj_extract_items"}
    /\ LET r == rj_extract_items(resp.lines)
       IN  resp' = RjResp("rj_extract_items", resp.lines, r.outcome, r.items)
    /\ UNCHANGED <<notes, items, origin, mappings, master, logFile, events, report, importers, acked>>

NextRj == CallRjExtractItems

SpecRj == InitRj /\ [][NextRj]_vars

(***************************************************************************)
(* The total amount read from page texts                                   *)
(***************************************************************************)
TotalPrefixes == {"", "NFC-e 65", "Itens: 3", "Emissao: 11/02/2026", "Qtde 0"}
TotalLabels == {"", "Valor a pagar R$:", "VALOR A PAGAR R$:"}
TotalAmounts == {"", "150,75", "1.234,56", "0,00", "12"}
TotalSuffixes == {"", "Troco 5,00", "Tributos 9,10"}

TotalPages ==
    {TotalPage(p, l, a, x) : p \in TotalPrefixes, l \in TotalLabels, a \in TotalAmounts,
                             x \in TotalSuffixes}

\* what a direct call of the extractor gave: the page and the amount, in hundredths
TotalResp(op, page, total) ==
    [op |-> op, status |-> 0, outcome |-> "ok", url |-> NoUrl, force |-> FALSE, xml |-> NoXml,
     parsed |-> NoDoc, detail |-> NoKey, page |-> page, total |-> total]

InitTotal ==
    /\ notes = <<>>
    /\ items = <<>>
    /\ origin = <<>>
    /\ mappings = {}
    /\ master = {}
    /\ logFile = {}
    /\ events = <<>>
    /\ report = NoReport
    /\ importers = NoImporters
    /\ acked = {}
    /\ resp \in {TotalResp("input", pg, 0) : pg \in TotalPages}

\* DefaultSefazAdapter()._extract_total_amount(soup)
CallExtractTotal ==
    /\ resp.op \in {"input", "_extract_total_amount"}
    /\ resp' = TotalResp("_extract_total_amount", resp.page, extract_total_amount(resp.page))
    /\ UNCHANGED <<notes, items, origin, mappings, master, logFile, events, report, importers, acked>>

NextTotal == CallExtractTotal

SpecTotal == InitTotal /\ [][NextTotal]_vars

(***************************************************************************)
(* POST /products/eans/                                                    *)
(***************************************************************************)
Eans == {"e1", "e2"}
BadEan == "123"   \* fewer than 13 digits

create_product_master(ean) ==
    /\ IF ean = BadEan
       THEN /\ resp' = Resp("create_product_master", 400, "BadRequest", NoUrl, FALSE, NoXml, NoDoc)
            /\ UNCHANGED master
       ELSE /\ resp' = Resp("create_product_master", 200, "ok", NoUrl, FALSE, NoXml, NoDoc)
            /\ master' = master \cup {ean}
    /\ events' = <<>>
    /\ UNCHANGED <<notes, items, origin, mappings, logFile, report, importers, acked>>

(***************************************************************************)
(* POST /product-mappings/                                                 *)
(***************************************************************************)
ProductMapping(id, raw_description, seller_name, product_ean) ==
    [id |-> id, raw_description |-> raw_description, seller_name |-> seller_name,
     product_ean |-> product_ean]

\* the request, as the caller sees it in the response
MappingRequest(raw_description, seller_name, product_ean) ==
    ParsedNote(seller_name, 0, NoKey, <<ParsedItem(raw_description, 0, 0, 0, product_ean)>>)

\* mutation: a row is added whether the pair has a mapping or not
create_product_mapping_always_inserts(raw_description, seller_name, product_ean) ==
    LET req == MappingRequest(raw_description, seller_name, product_ean)
    IN  /\ IF product_ean \notin master
           THEN /\ resp' = Resp("create_product_mapping", 404, "NotFound", NoUrl, FALSE, NoXml, req)
                /\ UNCHANGED mappings
           ELSE /\ mappings' = mappings \cup
                        {ProductMapping(Cardinality(mappings) + 1, raw_description,
                                        seller_name, product_ean)}
                /\ resp' = Resp("create_product_mapping", 200, "created", NoUrl, FALSE,
                                NoXml, req)
        /\ events' = <<>>
        /\ UNCHANGED <<notes, items, origin, master, logFile, report, importers, acked>>

\* mutation: the stored items of the pair that have no code receive the code
create_product_mapping_backfills(raw_description, seller_name, product_ean) ==
    LET existing == {m \in mappings : m.raw_description = raw_description
                                       /\ m.seller_name = seller_name}
        req == MappingRequest(raw_description, seller_name, product_ean)
    IN  /\ IF product_ean \notin master
           THEN /\ resp' = Resp("create_product_mapping", 404, "NotFound", NoUrl, FALSE, NoXml, req)
                /\ UNCHANGED <<mappings, items>>
           ELSE /\ items' = [i \in 1..Len(items) |->
                                IF /\ items[i].product_name = raw_description
                                   /\ notes[items[i].note_id].seller_name = seller_name
                                   /\ items[i].product_ean = None
                                THEN [items[i] EXCEPT !.product_ean = product_ean]
                                ELSE items[i]]
                /\ IF existing # {}
                   THEN LET first == CHOOSE m \in existing : \A o \in existing : m.id <= o.id
                        IN  /\ mappings' = (mappings \ {first})
                                           \cup {[first EXCEPT !.product_ean = product_ean]}
                            /\ resp' = Resp("create_product_mapping", 200, "updated", NoUrl,
                                            FALSE, NoXml, req)
                   ELSE /\ mappings' = mappings \cup
                                {ProductMapping(Cardinality(mappings) + 1, raw_description,
                                                seller_name, product_ean)}
                        /\ resp' = Resp("create_product_mapping", 200, "created", NoUrl,
                                        FALSE, NoXml, req)
        /\ events' = <<>>
        /\ UNCHANGED <<notes, origin, master, logFile, report, importers, acked>>

create_product_mapping(raw_description, seller_name, product_ean) ==
    LET existing == {m \in mappings : m.raw_description = raw_description
                                       /\ m.seller_name = seller_name}
        req == MappingRequest(raw_description, seller_name, product_ean)
    IN  /\ IF product_ean \notin master
           THEN /\ resp' = Resp("create_product_mapping", 404, "NotFound", NoUrl, FALSE, NoXml, req)
                /\ UNCHANGED mappings
           ELSE IF existing # {}
           THEN LET first == CHOOSE m \in existing : \A o \in existing : m.id <= o.id
                IN  /\ mappings' = (mappings \ {first})
                                   \cup {[first EXCEPT !.product_ean = product_ean]}
                    /\ resp' = Resp("create_product_mapping", 200, "updated", NoUrl, FALSE,
                                    NoXml, req)
           ELSE /\ mappings' = mappings \cup
                        {ProductMapping(Cardinality(mappings) + 1, raw_description,
                                        seller_name, product_ean)}
                /\ resp' = Resp("create_product_mapping", 200, "created", NoUrl, FALSE,
                                NoXml, req)
        /\ events' = <<>>
        /\ UNCHANGED <<notes, items, origin, master, logFile, report, importers, acked>>

(***************************************************************************)
(* POST /fiscal-notes/{note_id}/items                                      *)
(***************************************************************************)
\* the product_ean a manually added item is stored with (main.py 504-506)
resolve_item_ean(product_ean, matches) ==
    IF product_ean \in {None, EmptyStr} /\ matches # {}
    THEN (CHOOSE m \in matches : TRUE).product_ean
    ELSE product_ean

create_fiscal_item(note_id, item_data) ==
    /\ Len(items) < MaxItemRows
    /\ events' = <<>>
    /\ UNCHANGED <<notes, origin, mappings, master, logFile, report, importers, acked>>
    /\ IF note_id \notin 1..Len(notes)
       THEN /\ resp' = Resp("create_fiscal_item", 404, "NotFound", NoUrl, FALSE, NoXml, NoDoc)
            /\ UNCHANGED items
       ELSE LET note == notes[note_id]
                req == ParsedNote(note.seller_name, 0, NoKey, <<item_data>>)
                matches == matching_mappings(item_data.name, note.seller_name, mappings)
                row == FiscalItem(note_id, item_data.name, item_data.quantity,
                                  item_data.unit_price, item_data.total_price,
                                  resolve_item_ean(item_data.ean, matches))
            IN  IF Cardinality(matches) > 1
                THEN /\ resp' = Resp("create_fiscal_item", 500, "MultipleResultsFound",
                                     NoUrl, FALSE, NoXml, req)
                     /\ UNCHANGED items
                ELSE IF ~check_constraints_ok(row)
                THEN /\ resp' = Resp("create_fiscal_item", 500, "IntegrityError",
                                     NoUrl, FALSE, NoXml, req)
                     /\ UNCHANGED items
                ELSE /\ resp' = Resp("create_fiscal_item", 200, "ok", NoUrl, FALSE, NoXml, req)
                     /\ items' = Append(items, row)

(***************************************************************************)
(* The resolver at work: master data, mappings, imports, manual items      *)
(***************************************************************************)
ResolveEnv ==
    Env({GetResult(200, PageDocOnly)}, {PageDocOnly}, {PageDocOnly}, {TRUE}, Tokens)

ItemInputs ==
    {ParsedItem("n1", q, 3, 3, e) : q \in {0, 1}, e \in {None, EmptyStr, "e2"}}

NextResolve ==
    \/ \E ean \in Eans \cup {BadEan} : create_product_master(ean)
    \/ \E raw \in {"n1"}, seller \in {"s1", "s2"}, ean \in Eans :
            create_product_mapping(raw, seller, ean)
    \/ \E xml \in {XmlA, XmlB} : import_xml(xml)
    \/ import_url(UrlSP, FALSE, ResolveEnv)
    \/ \E note_id \in 1..MaxNotes, item_data \in ItemInputs :
            create_fiscal_item(note_id, item_data)

SpecResolve == Init /\ [][NextResolve]_vars

(***************************************************************************)
(* Mappings created and replaced between imports                           *)
(***************************************************************************)
NextMapping ==
    \/ \E ean \in Eans \cup {BadEan} : create_product_master(ean)
    \/ \E raw \in {"n1"}, seller \in {"s1", "s2"}, ean \in Eans :
            create_product_mapping(raw, seller, ean)
    \/ \E xml \in {XmlA, XmlB} : import_xml(xml)

SpecMapping == Init /\ [][NextMapping]_vars

(***************************************************************************)
(* Properties                                                              *)
(***************************************************************************)
IsImport(r) == r.op \in {"import_xml", "import_url"}

LaunchKinds == {"LAUNCH_HEADLESS", "LAUNCH_VISIBLE"}

\* two stored keys name the same 44-digit access key
SameAccessKey(a, b) == a = b \/ (a.digits # None /\ a.digits = b.digits)

\* C1: for any access key k, the first import whose document carries k
\* succeeds and persists one note, every later import whose document carries k
\* fails with 409 ConflictError, and no two persisted notes share an access key.
C1_FirstImportSucceedsLaterConflict ==
    /\ [](\A i, j \in 1..Len(notes) :
            i # j => ~SameAccessKey(notes[i].access_key, notes[j].access_key))
    /\ [][(IsImport(resp') /\ resp'.parsed # NoDoc /\ resp'.parsed.access_key.digits # None)
          => IF \E i \in 1..Len(notes) :
                    SameAccessKey(notes[i].access_key, resp'.parsed.access_key)
             THEN resp'.status = 409 /\ notes' = notes
             ELSE /\ resp'.status = 200
                  /\ Len(notes') = Len(notes) + 1
                  /\ notes'[Len(notes')].access_key = resp'.parsed.access_key]_vars

\* C2: every imported item that carries a document-declared code is persisted
\* with that code, also when a mapping for the same (item name, seller name)
\* names another code.
C2_DeclaredCodeWins ==
    (IsImport(resp) /\ resp.status = 200) =>
        LET n == Len(resp.parsed.items)
            base == Len(items) - n
        IN  /\ base >= 0
            /\ \A j \in 1..n :
                  resp.parsed.items[j].ean # None =>
                      items[base + j].product_ean = resp.parsed.items[j].ean

\* a state right after an import stored a declared code that a mapping of the
\* same item name and seller contradicts
C2_Witness ==
    /\ IsImport(resp) /\ resp.status = 200
    /\ \E j \in 1..Len(resp.parsed.items) : \E m \in mappings :
          /\ resp.parsed.items[j].ean # None
          /\ m.raw_description = resp.parsed.items[j].name
          /\ m.seller_name = resp.parsed.seller_name
          /\ m.product_ean # resp.parsed.items[j].ean

\* the code the mapping table gives for (name, seller): exact match on both
ExpectedMappedCode(name, seller) ==
    IF \E m \in mappings : m.raw_description = name /\ m.seller_name = seller
    THEN (CHOOSE m \in mappings : m.raw_description = name /\ m.seller_name = seller).product_ean
    ELSE None

\* C3: an item without a declared code is stored with the code of the mapping
\* whose raw description and seller name both equal the item's name and the
\* note's seller name, and with a null code when there is no such mapping;
\* for imported items and for items added through POST /fiscal-notes/{id}/items.
C3_MappingLookupExact ==
    ((IsImport(resp) \/ resp.op = "create_fiscal_item") /\ resp.status = 200) =>
        LET n == Len(resp.parsed.items)
            base == Len(items) - n
        IN  /\ base >= 0
            /\ \A j \in 1..n :
                  resp.parsed.items[j].ean = None =>
                      items[base + j].product_ean =
                          ExpectedMappedCode(resp.parsed.items[j].name, resp.parsed.seller_name)

\* an item without a code was just added to an existing note, a mapping for its
\* name and the note's seller exists, and another one for the same name and a
\* different seller names a different code
C3_Witness ==
    /\ resp.op = "create_fiscal_item" /\ resp.status = 200
    /\ resp.parsed.items[1].ean = None
    /\ items[Len(items)].product_ean # None
    /\ \E m, o \in mappings :
          /\ m.raw_description = resp.parsed.items[1].name
          /\ m.seller_name = resp.parsed.seller_name
          /\ o.raw_description = m.raw_description
          /\ o.seller_name # m.seller_name
          /\ o.product_ean # m.product_ean

\* C4: an import that ends in ConflictError leaves the tables as they were, and
\* an import of a document whose access key is already stored always ends in
\* 409 with an error that names that key.
C4_ConflictLeavesStateUnchanged ==
    [][/\ (IsImport(resp') /\ resp'.status = 409) =>
              /\ notes' = notes /\ items' = items
              /\ mappings' = mappings /\ master' = master
              /\ resp'.outcome = "ConflictError"
              /\ resp'.detail = resp'.parsed.access_key
              /\ \E i \in 1..Len(notes) : notes[i].access_key = resp'.detail
       /\ (IsImport(resp') /\ resp'.parsed # NoDoc
           /\ \E i \in 1..Len(notes) : notes[i].access_key = resp'.parsed.access_key)
              => resp'.status = 409]_vars

\* an import has just been rejected as a duplicate of a stored note with items
C4_Witness ==
    /\ IsImport(resp) /\ resp.status = 409
    /\ Len(notes) >= 1 /\ Len(items) >= 1

\* C5: importing the same source again (the same XML bytes, the same URL
\* showing the same page) never creates a second note for that document, also
\* when the key is synthesized.
C5_NoSourceCommittedTwice ==
    \A i, j \in 1..Len(origin) : origin[i] = origin[j] => i = j

\* C6: with force_browser false the GET precedes every browser session, and
\* when the lightweight page is not a block page and the adapter parses it, that
\* document is returned and no browser session is launched.
C6_CheapPathFirst ==
    (resp.op = "import_from_url" /\ ~resp.force) =>
        /\ events # <<>> /\ events[1].kind = "GET"
        /\ \A i \in 1..Len(events) :
              events[i].kind \in LaunchKinds
                  => \E j \in 1..(i - 1) : events[j].kind = "GET"
        /\ \A i \in 1..Len(events) :
              (/\ events[i].kind = "PARSE_GET"
               /\ events[i].status = ParseOk
               /\ ~looks_like_sefaz_block_page(events[i].page))
                  => /\ resp.outcome = "ok"
                     /\ resp.parsed # NoDoc
                     /\ resp.parsed.items = PageReceipt(resp.url).items
                     /\ resp.parsed.seller_name = PageReceipt(resp.url).seller_name
                     /\ \A j \in 1..Len(events) : events[j].kind \notin LaunchKinds

\* the lightweight page was parsed and returned
C6_Witness ==
    /\ resp.op = "import_from_url" /\ ~resp.force /\ resp.outcome = "ok"
    /\ \E i \in 1..Len(events) : events[i].kind = "PARSE_GET" /\ events[i].status = ParseOk

\* C7: with force_browser true no lightweight GET is issued; the browser fetch
\* is the first and only acquisition tier.
C7_ForceBrowserSkipsGet ==
    (resp.op = "import_from_url" /\ resp.force) =>
        /\ \A i \in 1..Len(events) : events[i].kind \notin {"GET", "PARSE_GET"}
        /\ events # <<>> /\ events[1].kind = "LAUNCH_HEADLESS"

\* a forced browser import that returned a document
C7_Witness ==
    /\ resp.op = "import_from_url" /\ resp.force /\ resp.outcome = "ok"
    /\ \E i \in 1..Len(events) : events[i].kind = "PARSE_BROWSER"

\* a page matches a block signature when one of the two detectors fires
MatchesBlockSignature(html) ==
    looks_like_sefaz_block_page(html) \/ looks_like_rj_block_page(html)

\* C8: whenever the HTML captured by the headless session matches a block
\* signature the fetch is retried exactly once with a visible session, and when
\* the HTML of the retry is still blocked the import fails with
\* BlockedAccessError without running the adapter on it.
C8_BlockedHeadlessRetriedOnce ==
    (resp.op = "import_from_url") =>
        \A i \in 2..Len(events) :
            (/\ events[i].kind = "CAPTURE"
             /\ events[i - 1].kind = "LAUNCH_HEADLESS"
             /\ MatchesBlockSignature(events[i].page))
                => /\ Cardinality({j \in 1..Len(events) :
                                      events[j].kind = "LAUNCH_VISIBLE"}) = 1
                   /\ \A j \in 2..Len(events) :
                         (/\ events[j].kind = "CAPTURE"
                          /\ events[j - 1].kind = "LAUNCH_VISIBLE"
                          /\ MatchesBlockSignature(events[j].page))
                             => /\ resp.outcome = "BlockedAccessError"
                                /\ \A k \in 1..Len(events) :
                                      events[k].kind # "PARSE_BROWSER"

IsFetchCall(r) == r.op \in {"import_url", "import_from_url"}

AcquisitionFailureLeavesNoTrace ==
    /\ resp'.outcome = "AcquisitionError"
    /\ Len(events') = 1
    /\ notes' = notes /\ items' = items /\ logFile' = logFile

\* C9 as stated: a GET that fails by transport error or returns a non-2xx
\* status ends the import with AcquisitionError; no browser, no adapter,
\* nothing persisted, log unchanged.
C9_Non2xxIsAcquisitionError ==
    [][(/\ IsFetchCall(resp') /\ events' # <<>> /\ events'[1].kind = "GET"
        /\ (events'[1].status = TransportError
            \/ events'[1].status < 200 \/ events'[1].status > 299))
          => AcquisitionFailureLeavesNoTrace]_vars

\* C9 amended: a GET that fails by transport error or returns a 4xx or 5xx
\* status ends the import with AcquisitionError; no browser, no adapter,
\* nothing persisted, log unchanged.
C9_ErrorStatusIsAcquisitionError ==
    [][(/\ IsFetchCall(resp') /\ events' # <<>> /\ events'[1].kind = "GET"
        /\ (events'[1].status = TransportError
            \/ (events'[1].status >= 400 /\ events'[1].status <= 599)))
          => AcquisitionFailureLeavesNoTrace]_vars

\* a 404 has just ended an import while notes and logged URLs exist
C9_Witness ==
    /\ resp.op = "import_url" /\ resp.outcome = "AcquisitionError"
    /\ events[1].status = 404
    /\ notes # <<>> /\ logFile # {}

\* C10: a URL is appended to the log only when its import succeeded (fetched,
\* parsed and persisted); an import that ends in ConflictError,
\* BlockedAccessError, ExtractionError or AcquisitionError leaves the log
\* unchanged.
C10_LogOnlyOnSuccess ==
    [][/\ logFile' # logFile =>
              /\ resp'.op = "import_url" /\ resp'.status = 200
              /\ logFile' = logFile \cup {resp'.url}
       /\ (IsImport(resp')
           /\ resp'.outcome \in {"ConflictError", "BlockedAccessError",
                                 "ExtractionError", "AcquisitionError"})
              => logFile' = logFile]_vars

\* what a caller of import_from_url observes of one result
Observed(r) == [events |-> r.events, outcome |-> r.outcome, doc |-> r.doc]

\* C11: the processed-source log never gates an import.  For a URL that is in
\* the log, import_from_url can do exactly what it can do with an empty log
\* (same fetches, same parses, same documents), an import of a logged URL
\* always performs a fetch, and when a document was parsed the import is
\* rejected only if its access key is already stored (409).
C11_LogNeverGatesImport ==
    /\ [](\A url \in logFile : \A force \in BOOLEAN :
            {Observed(r) : r \in import_from_url(url, force, logFile, EndpointEnv)}
              = {Observed(r) : r \in import_from_url(url, force, {}, EndpointEnv)})
    /\ [][(resp'.op = "import_url" /\ resp'.url \in logFile) =>
              /\ events' # <<>>
              /\ resp'.parsed # NoDoc =>
                    IF access_key_taken(resp'.parsed.access_key, notes)
                    THEN resp'.status = 409
                    ELSE resp'.status = 200 /\ Len(notes') = Len(notes) + 1]_vars

\* a URL that was already in the log (this call wrote nothing) has just been
\* fetched again through both tiers, and the import ended blocked
C11_Witness ==
    /\ resp.op = "import_url" /\ resp.outcome = "BlockedAccessError"
    /\ resp.url \in logFile
    /\ \A i \in 1..Len(events) : events[i].kind # "SAVE_LOG"
    /\ \E i, j \in 1..Len(events) :
          i < j /\ events[i].kind = "GET" /\ events[j].kind = "CAPTURE"

\* how the turn of one URL ends when it is handled on its own, with the notes
\* stored before it
ExpectedResult(e, before) ==
    IF e.fetched # "ok" THEN e.fetched
    ELSE persist_parsed_note(e.doc, "SCRAPING", before, <<>>, {}).error

\* the notes stored when turn j of the last restore began
NotesBefore(j) ==
    SubSeq(notes, 1, report.base + restored_count(SubSeq(report.entries, 1, j - 1)))

\* C12: batch restore isolates per-URL failures.  Every URL of the list has one
\* entry, counted as restored or as an error, and each entry ends as the same
\* URL would end on its own, whatever failed before it in the list.
C12_RestoreIsolatesFailures ==
    (resp.op = "restore_from_backup" /\ resp.status = 200) =>
        /\ {report.entries[j].url : j \in 1..Len(report.entries)} = logFile
        /\ restored_count(report.entries) + Len(errors(report.entries))
              = Cardinality(logFile)
        /\ \A j \in 1..Len(report.entries) :
              report.entries[j].result = ExpectedResult(report.entries[j], NotesBefore(j))

\* the rows of fiscal_items that belong to note id, in id order
ItemsOfNote(id) == SelectSeq(items, LAMBDA it : it.note_id = id)

ParseKinds == {"PARSE_GET", "PARSE_BROWSER"}

\* C14: the adapter is a function of the URL alone.  Whatever was imported
\* before and whichever tier produced the HTML, the adapter that parses is the
\* regional one when the URL text contains 'fazenda.rj.gov.br' and the generic
\* one otherwise.
C14_AdapterDependsOnUrlOnly ==
    (resp.op = "import_url") =>
        \A i \in 1..Len(events) :
            events[i].kind \in ParseKinds =>
                events[i].adapter =
                    IF \E k \in 1..(Len(url_text(resp.url)) - Len(RjDomain) + 1) :
                          SubSeq(url_text(resp.url), k, k + Len(RjDomain) - 1) = RjDomain
                    THEN "rj_nfe_moderno" ELSE "default"

\* after an earlier import, a URL that names the domain only in its query was
\* parsed by the regional adapter on both tiers
C14_Witness ==
    /\ resp.op = "import_url" /\ resp.status = 409
    /\ resp.url = Url("proxy.example.org", "u=fazenda.rj.gov.br")
    /\ \E i, j \in 1..Len(events) :
          /\ events[i].kind = "PARSE_GET" /\ events[i].adapter = "rj_nfe_moderno"
          /\ events[j].kind = "PARSE_BROWSER" /\ events[j].adapter = "rj_nfe_moderno"

\* the texts of ParseTexts that contain a block phrase in some letter case
BlockTexts ==
    {"Acesso negado ao portal da SEFAZ", "ACESSO NEGADO AO PORTAL", "seu acesso bloqueado",
     "Acesso Bloqueado"}

\* C15: the generic adapter rejects a page whose text contains 'acesso negado
\* ao portal' or 'acesso bloqueado', in any letter case, with ExtractionError
\* before any extractor has run: no document, no extraction step, no key.
C15_BlockPageRejectedFirst ==
    (resp.op = "default_parse" /\ resp.html.text \in BlockTexts) =>
        /\ resp.outcome = "ExtractionError"
        /\ resp.parsed = NoDoc
        /\ events = <<>>

\* an upper-case block page that carries an item row and no key was rejected
C15_Witness ==
    /\ resp.op = "default_parse" /\ resp.outcome = "ExtractionError"
    /\ resp.html.text = "ACESSO NEGADO AO PORTAL"
    /\ resp.html.table = "generic"
    /\ resp.html.rows = <<Row("ARROZ", None, 2, 3, 6)>>
    /\ resp.html.key.place = "none"

\* the spellings of the city token among the row names explored
TokenSpellings == {"NITEROI", "Niteroi", "niteroi"}

Key44Grouped == "3326 0210 6976 9700 0660 6510 7000 3680 6612 6649 4182"

\* the source of the last parse carries the 44 digits of Key44
CarriesKey44 ==
    \/ /\ resp.op = "default_parse"
       /\ resp.html.key.place # "none"
       /\ resp.html.key.printed \in {Key44, Key44Grouped}
    \/ /\ resp.op = "xml_parse"
       /\ resp.xml.Id = "NFe" \o Key44

\* C17: whenever the source carries a 44-digit access key (span of class
\* 'chave', after the 'Chave de acesso' label, in the page text with or without
\* spaces, or in the XML Id attribute after its prefix), the returned key is
\* those digits in 11 blocks of 4 separated by one space.
C17_KeyEmittedGrouped ==
    (CarriesKey44 /\ resp.outcome = "ok") =>
        key_text(resp.parsed.access_key) = Key44Grouped

\* the first characters of a stored key
KeyPrefix(key, n) ==
    IF Len(key_text(key)) < n THEN key_text(key) ELSE SubSeq(key_text(key), 1, n)

\* the source of the last parse prints no access key
CarriesNoKey ==
    \/ /\ resp.op = "default_parse"
       /\ resp.html.key \in {HtmlKey("none", EmptyStr), HtmlKey("text", "0123456789")}
    \/ /\ resp.op = "xml_parse"
       /\ resp.xml.Id = None

C19_XmlParseDeterministic ==
    [][(resp.op = "xml_parse" /\ resp'.op = "xml_parse" /\ resp'.xml = resp.xml) =>
          (resp'.outcome = resp.outcome /\ resp'.parsed = resp.parsed)]_vars

\* an XML input lacks a field the contract requires
LacksRequiredField(xml) ==
    \/ xml.dhEmi = None
    \/ xml.xNome = None
    \/ xml.vNF = Missing
    \/ xml.dets = <<>>
    \/ \E j \in 1..Len(xml.dets) :
          \/ xml.dets[j].xProd = None
          \/ xml.dets[j].qCom = Missing
          \/ xml.dets[j].uCom = None
          \/ xml.dets[j].vUnCom = Missing

\* C20: XMLProcessor.parse fails with ExtractionError and returns no document
\* whenever the emission timestamp, the seller name, the total, every line
\* item, or an item's name, quantity, unit or unit price is absent.
C20_XmlRequiredFields ==
    (resp.op = "xml_parse" /\ LacksRequiredField(resp.xml)) =>
        (resp.outcome = "ExtractionError" /\ resp.parsed = NoDoc)

\* the adapter failed on the HTML of the lightweight fetch at step i
LightParseFailed(evs, i) ==
    evs[i].kind = "PARSE_GET" /\ evs[i].status = ParseFailed

\* the adapter failed on the rendered HTML at step i
RenderedParseFailed(evs, i) ==
    evs[i].kind = "PARSE_BROWSER" /\ evs[i].status = ParseFailed

\* C21: an ExtractionError of the adapter on the lightweight HTML is never
\* surfaced: the rendered fetch follows it and its HTML is parsed by the same
\* adapter.  An ExtractionError on the rendered HTML is terminal: the call
\* ends with it, nothing is fetched afterwards and the log is not written.
C21_ParseFailureEscalatesOnce ==
    /\ [](resp.op = "import_from_url" =>
            /\ \A i \in 1..Len(events) : LightParseFailed(events, i) =>
                  /\ i < Len(events)
                  /\ events[i + 1].kind = "LAUNCH_HEADLESS"
                  /\ \A j \in 1..Len(events) : events[j].kind = "PARSE_BROWSER" =>
                        /\ j > i
                        /\ events[j].adapter = events[i].adapter
                        /\ events[j - 1].kind = "CLOSE"
                        /\ events[j - 2].kind = "CAPTURE"
                        /\ events[j].page = events[j - 2].page
            /\ \A j \in 1..Len(events) : RenderedParseFailed(events, j) =>
                  /\ j = Len(events)
                  /\ resp.outcome = "ExtractionError"
                  /\ resp.parsed = NoDoc)
    /\ [][(resp'.op = "import_from_url" /\ events' # <<>>
           /\ RenderedParseFailed(events', Len(events')))
             => logFile' = logFile]_vars

\* the lightweight parse failed, the rendered page was fetched and parsed
C21_Witness ==
    /\ resp.op = "import_from_url" /\ resp.outcome = "ok"
    /\ \E i \in 1..Len(events) : LightParseFailed(events, i)
    /\ \E j \in 1..Len(events) : events[j].kind = "PARSE_BROWSER" /\ events[j].status = ParseOk

\* the steps of one kind in a list of acquisition events
StepsOf(evs, kinds) == {i \in 1..Len(evs) : evs[i].kind \in kinds}

\* every session launched in evs captured its page and was closed
SessionsClosed(evs) ==
    \A i \in StepsOf(evs, LaunchKinds) :
        /\ i + 2 <= Len(evs)
        /\ evs[i + 1].kind = "CAPTURE"
        /\ evs[i + 2].kind = "CLOSE"

\* C22: a call makes a bounded number of acquisition attempts: at most one
\* GET, at most one headless session and, only after it, at most one visible
\* session.  A fetcher configured with headless false launches exactly one
\* session even when its HTML looks blocked.  Whenever the fetch returns its
\* HTML, every session it launched was closed before.
C22_BoundedAttempts ==
    /\ resp.op \in {"import_from_url", "fetch"} =>
          /\ Cardinality(StepsOf(events, {"GET"})) <= 1
          /\ Cardinality(StepsOf(events, {"LAUNCH_HEADLESS"})) <= 1
          /\ Cardinality(StepsOf(events, {"LAUNCH_VISIBLE"})) <= 1
          /\ Cardinality(StepsOf(events, {"CLOSE"}))
                <= Cardinality(StepsOf(events, LaunchKinds))
    /\ resp.op = "import_from_url" =>
          /\ \A i \in StepsOf(events, {"LAUNCH_VISIBLE"}) :
                \E j \in 1..(i - 1) : events[j].kind = "LAUNCH_HEADLESS"
          /\ resp.outcome # "BrowserError" => SessionsClosed(events)
    /\ resp.op = "fetch" =>
          /\ resp.headless =>
                \A i \in StepsOf(events, {"LAUNCH_VISIBLE"}) :
                    \E j \in 1..(i - 1) : events[j].kind = "LAUNCH_HEADLESS"
          /\ ~resp.headless =>
                /\ Cardinality(StepsOf(events, LaunchKinds)) = 1
                /\ events[1].kind = "LAUNCH_VISIBLE"
          /\ resp.outcome = "ok" => SessionsClosed(events)

\* a visible-mode fetcher returned a page that looks blocked, after one session
C22_Witness ==
    /\ resp.op = "fetch" /\ ~resp.headless /\ resp.outcome = "ok"
    /\ looks_like_rj_block_page(resp.html)
    /\ Len(events) = 3 /\ events[3].kind = "CLOSE"

\* no importer is between the open() and the close of a write of the log
NoWriteInProgress == \A p \in Writers : importers[p].pc # "writing"

\* C23: the log is written atomically.  Whenever no write is in progress, a
\* crash included, the file holds a complete JSON array, and every URL that
\* was logged before is still in it: a later startup loads them all and no
\* later write discards them.
C23_LogWrittenAtomically ==
    NoWriteInProgress => (Torn \notin logFile /\ acked \subseteq logFile)

\* C24: writers of the log are serialized.  Once every request in progress has
\* ended, the file holds the URL of every request that wrote it, together with
\* every URL logged before: no update is lost.
C24_NoLostUpdate ==
    (\A p \in Writers : importers[p].pc \in {"idle", "done"}) =>
        /\ Torn \notin logFile
        /\ acked \subseteq logFile
        /\ \A p \in Writers : importers[p].saved => importers[p].url \in logFile

\* C26: failures of the log store never fail an import.  An importer built
\* while the file is missing or unreadable starts with the empty processed
\* set; when the write of the file fails after a successful parse the call
\* still returns the parsed document and the URL is in the in-memory set.
C26_LogFailuresNeverFailImport ==
    \A p \in Writers :
        /\ (importers[p].pc = "loaded" /\ (logFile = {} \/ Torn \in logFile))
              => importers[p].processed = {}
        /\ Torn \notin importers[p].processed
        /\ (importers[p].pc = "done" /\ importers[p].doc # NoDoc /\ ~importers[p].saved) =>
              /\ importers[p].outcome = "ok"
              /\ importers[p].url \in importers[p].processed
              /\ importers[p].doc.items = PageReceipt(importers[p].url).items
              /\ importers[p].doc.seller_name = PageReceipt(importers[p].url).seller_name

\* over a file a crash left incomplete, an import whose write failed returned
\* its document
C26_Witness ==
    /\ Torn \in logFile
    /\ importers[1].pc = "done" /\ importers[1].outcome = "ok"
    /\ ~importers[1].saved
    /\ importers[1].processed = {importers[1].url}

\* C25: in a restore a cooldown separates every two consecutive fetches: the
\* turn of every URL but the last sleeps before the next URL is fetched,
\* whether its import succeeded or failed.
C25_CooldownBetweenFetches ==
    (resp.op = "restore_from_backup" /\ resp.status = 200) =>
        \A j \in 1..(Len(report.entries) - 1) : report.entries[j].slept

\* the amounts printed in the parts of the pages explored, in hundredths
PartCents(part) ==
    CASE part = "150,75" -> 15075
      [] part = "1.234,56" -> 123456
      [] part = "12" -> 1200
      [] part = "NFC-e 65" -> 6500
      [] part = "Itens: 3" -> 300
      [] part = "Troco 5,00" -> 500
      [] part = "Tributos 9,10" -> 910
      [] OTHER -> 0

\* the first positive amount of a page without a labelled total, or 0
FirstPositiveAmount(pg) ==
    IF PartCents(pg.prefix) > 0 THEN PartCents(pg.prefix)
    ELSE IF PartCents(pg.amount) > 0 THEN PartCents(pg.amount)
    ELSE PartCents(pg.suffix)

\* the page prints an amount after a 'valor a pagar' label
HasLabelledTotal(pg) == pg.label # "" /\ pg.amount # ""

\* C27: when the page text has a labelled total to pay, that amount is the
\* total of the document even if an earlier token parses as a positive number;
\* without a labelled amount the first positive token is the total, and 0
\* when there is none.
C27_LabelledTotalPreferred ==
    resp.op = "_extract_total_amount" =>
        resp.total = IF HasLabelledTotal(resp.page) THEN PartCents(resp.page.amount)
                     ELSE FirstPositiveAmount(resp.page)

\* the lines of the pages explored that look like a product name: more than 3
\* characters, with a letter, not a number, not a field label
QualifyingLines == {"ARROZ TIPO 1", "FEIJAO PRETO", "MERCADO BOM LTDA", "UNID"}

\* the quantity-marker lines of a text, in order
MarkerLines(lines) ==
    {i \in 1..Len(lines) : Len(lines[i]) >= 4 /\ SubSeq(lines[i], 1, 4) = "Qtde"}

\* the most recent qualifying line before line i, at most 8 lines back
MostRecentName(lines, i) ==
    LET window == {j \in 1..(i - 1) : j >= i - 8 /\ lines[j] \in QualifyingLines}
    IN  lines[CHOOSE j \in window : \A k \in window : k <= j]

\* C28: for every quantity-marker line the item name is the most recent
\* qualifying line before it within the lookback window, so two items that lie
\* within one window of each other each get their own name.
C28_NameIsMostRecentLine ==
    resp.op = "rj_extract_items" =>
        LET markers == MarkerLines(resp.lines)
        IN  /\ Len(resp.parsed.items) = Cardinality(markers)
            /\ \A i \in markers :
                  resp.parsed.items[Cardinality({m \in markers : m <= i})].name
                      = MostRecentName(resp.lines, i)

\* the mappings of one (raw description, seller name) pair
MappingsOf(maps, raw, seller) ==
    {m \in maps : m.raw_description = raw /\ m.seller_name = seller}

\* C29: after any sequence of POST /product-mappings/ calls made one at a
\* time, a pair (raw description, seller name) has at most one mapping: a call
\* for an existing pair replaces the code of its mapping, a call naming a code
\* that is not in the product master is answered 404 and changes nothing; so
\* the lookup at import never finds two matches and every mapping references
\* a product of the master.
C29_OneMappingPerPair ==
    /\ [](/\ \A m, o \in mappings :
                (m.raw_description = o.raw_description /\ m.seller_name = o.seller_name)
                    => m = o
          /\ \A m \in mappings : m.product_ean \in master
          /\ resp.outcome # "MultipleResultsFound")
    /\ [][resp'.op = "create_product_mapping" =>
            LET raw == resp'.parsed.items[1].name
                seller == resp'.parsed.seller_name
                ean == resp'.parsed.items[1].ean
            IN  IF ean \notin master
                THEN resp'.status = 404 /\ mappings' = mappings
                ELSE /\ resp'.status = 200
                     /\ \E m \in mappings' :
                           /\ MappingsOf(mappings', raw, seller) = {m}
                           /\ m.product_ean = ean
                           /\ \A o \in MappingsOf(mappings, raw, seller) : o.id = m.id
                     /\ Cardinality(mappings') =
                           IF MappingsOf(mappings, raw, seller) = {}
                           THEN Cardinality(mappings) + 1 ELSE Cardinality(mappings)
                     /\ \A o \in mappings :
                           (o.raw_description # raw \/ o.seller_name # seller)
                               => o \in mappings']_vars

\* the code of an existing pair was replaced while another pair has a mapping
C29_Witness ==
    /\ resp.op = "create_product_mapping" /\ resp.outcome = "updated"
    /\ Cardinality(mappings) = 2
    /\ \E m \in mappings :
          /\ m.raw_description = resp.parsed.items[1].name
          /\ m.seller_name = resp.parsed.seller_name
          /\ m.product_ean = resp.parsed.items[1].ean
          /\ m.id = 1

\* C30: creating or updating a mapping changes only the mapping table: the
\* stored fiscal items keep their product code, so an orphan stays orphan when
\* a matching mapping is created; and an import never creates, updates or
\* deletes a mapping.
C30_MappingChangesOnlyMappings ==
    /\ [][resp'.op = "create_product_mapping" =>
            /\ items' = items
            /\ notes' = notes
            /\ master' = master]_vars
    /\ [][IsImport(resp') => mappings' = mappings]_vars
    /\ [][\A i \in 1..Len(items) :
            /\ i <= Len(items')
            /\ items'[i].product_ean = items[i].product_ean]_vars

\* a mapping was just created for the name and seller of a stored orphan item
C30_Witness ==
    /\ resp.op = "create_product_mapping" /\ resp.outcome = "created"
    /\ \E i \in 1..Len(items) :
          /\ items[i].product_ean = None
          /\ items[i].product_name = resp.parsed.items[1].name
          /\ notes[items[i].note_id].seller_name = resp.parsed.seller_name

====
